---------------------------- MODULE Spec2Model ----------------------------
(***************************************************************************)
(* apollo-service: the search-cursor pagination engine (POST /search/next) *)
(* and the enrichment / match endpoints (POST /enrich, POST /match) with   *)
(* their cost-tracking protocol against runs-service.                      *)
(*                                                                         *)
(* Every await of a route handler is one step of the handler, so that      *)
(* concurrent requests interleave exactly at the suspension points of the  *)
(* code.  The collaborators (key-service, Apollo, runs-service) answer     *)
(* nondeterministically: they succeed or throw.                            *)
(***************************************************************************)
EXTENDS Integers, Sequences, FiniteSets, TLC

VARIABLES
    cursors,    \* rows of apollo_search_cursors
    nreq,       \* number of requests received so far
    handler     \* per request being served: the locals of the route handler,
                \* with the run (runs-service) and the audit row
                \* (apollo_people_searches) that the request created

VARIABLES
    enrichments, \* rows of apollo_people_enrichments, in insertion order
    runs,        \* runs-service: the runs /enrich and /match created, by id
    now,         \* the clock, in months
    worker       \* the locals of the /enrich or /match handler being served

cvars == <<cursors, handler>>
evars == <<enrichments, runs, now, worker>>
vars == <<cursors, nreq, handler, enrichments, runs, now, worker>>

---------------------------------------------------------------------------
(* Bounds of the model *)

NumHandlers == 2        \* requests that may be in flight at the same time
MaxRequests == 3        \* requests received in one behaviour

(* Program constants *)

PerPage == 25           \* per_page of POST /search/next
PageCeiling == 500      \* nextPage > 500 ends the pagination

Procs == 1..NumHandlers
Orgs == {"org-1"}
Campaigns == {"campaign-1"}

None == <<>>
Some(x) == <<x>>

---------------------------------------------------------------------------
(* Filter objects.  A JS object is the sequence of its <<key, value>>      *)
(* pairs in insertion order; key order is observable through               *)
(* JSON.stringify.                                                         *)

\* The keys of SearchFiltersSchema in the order of its shape.
SchemaKeys ==
    << "personTitles", "qOrganizationKeywordTags", "organizationLocations",
       "organizationNumEmployeesRanges", "qOrganizationIndustryTagIds",
       "qKeywords", "personLocations", "personSeniorities",
       "contactEmailStatus", "qOrganizationDomains",
       "currentlyUsingAnyOfTechnologyUids", "revenueRange", "organizationIds" >>

Keys(obj) == {obj[i][1] : i \in DOMAIN obj}
Get(obj, k) == (CHOOSE i \in DOMAIN obj : obj[i][1] = k)

\* Structural content of an object: its set of pairs, whatever the order.
Struct(obj) == {obj[i] : i \in DOMAIN obj}

\* z.object(...).safeParse: the parsed object holds the keys of the shape
\* that the body carries, in the order of the shape.
RECURSIVE ZodFrom(_, _)
ZodFrom(body, i) ==
    IF i > Len(SchemaKeys) THEN <<>>
    ELSE (IF SchemaKeys[i] \in Keys(body)
             THEN <<body[Get(body, SchemaKeys[i])]>>
             ELSE <<>>) \o ZodFrom(body, i + 1)

ZodParse(body) == ZodFrom(body, 1)

\* A jsonb column does not keep the key order of the object written to it:
\* it returns the keys shortest first (equal lengths, not modelled, bytewise).
RECURSIVE JsonbInsert(_, _)
JsonbInsert(pair, sorted) ==
    IF sorted = <<>> THEN <<pair>>
    ELSE IF Len(pair[1]) < Len(Head(sorted)[1])
         THEN <<pair>> \o sorted
         ELSE <<Head(sorted)>> \o JsonbInsert(pair, Tail(sorted))

RECURSIVE JsonbSort(_)
JsonbSort(obj) ==
    IF obj = <<>> THEN <<>> ELSE JsonbInsert(Head(obj), JsonbSort(Tail(obj)))

Jsonb(obj) == JsonbSort(obj)

\* JSON.stringify of a flat object: the keys and values in insertion order.
RECURSIVE JSONstringify(_)
JSONstringify(obj) ==
    IF obj = <<>> THEN <<>>
    ELSE <<Head(obj)[1], Head(obj)[2]>> \o JSONstringify(Tail(obj))

\* The request bodies the callers send (searchParams as written by the caller).
Bodies ==
    { << <<"personTitles", "CEO">> >>,
      << <<"qKeywords", "saas">>, <<"personTitles", "CEO">> >> }

SearchFilters == {ZodParse(b) : b \in Bodies}

---------------------------------------------------------------------------
(* Collaborators *)

\* searchPeople: what Apollo may answer for one page.
ApolloSearchResponses ==
    { [people |-> PerPage, total_entries |-> 75],
      [people |-> 0, total_entries |-> 75],
      [people |-> 0, total_entries |-> 0] }

\* A result set that has a page near the ceiling is a large one: for such a
\* page Apollo may also report a total that the ceiling cuts short.
ApolloSearchResponsesFor(page) ==
    IF page >= PageCeiling - 1
    THEN ApolloSearchResponses \cup {[people |-> PerPage, total_entries |-> 20000]}
    ELSE ApolloSearchResponses

---------------------------------------------------------------------------
(* Handler locals *)

NoRes == [status |-> 0, people |-> 0, done |-> FALSE, totalEntries |-> 0]

IdleHandler ==
    [ pc |-> "idle",
      last |-> "idle",             \* the step at which the handler answered
      orgId |-> "org-1", campaignId |-> "campaign-1",
      runId |-> 0,                 \* the caller's parent run
      searchParams |-> None,       \* parsed.data.searchParams
      existingCursor |-> None,     \* [existingCursor] = select ... limit(1)
      cursorSearchParams |-> <<>>,
      currentPage |-> 0,
      isExhausted |-> FALSE,
      cursorId |-> None,
      apolloParams |-> None,       \* what searchPeople was called with
      calls |-> 0,                 \* searchPeople calls of this request
      people |-> 0, totalEntries |-> 0, nextPage |-> 0, done |-> FALSE,
      searchRun |-> None,          \* the run createRun returned, as runs-service holds it
      search |-> None,             \* the apollo_people_searches row inserted
      solo |-> TRUE,               \* no other request overlapped this one
      res |-> NoRes ]

Json(h, people, done, totalEntries, at) ==
    [h EXCEPT !.pc = "done", !.last = at,
              !.res = [status |-> 200, people |-> people, done |-> done,
                       totalEntries |-> totalEntries]]

Fail(h, status, at) ==
    [h EXCEPT !.pc = "done", !.last = at,
              !.res = [status |-> status, people |-> 0, done |-> FALSE,
                       totalEntries |-> 0]]

InFlight(p) == handler[p].pc \notin {"idle", "done"}

---------------------------------------------------------------------------
(* POST /enrich and POST /match: data *)

CacheMonths == 12       \* twelveMonthsAgo.setMonth(getMonth() - 12)
TickMonths == 6         \* the clock advances by this much
MaxNow == 12            \* and stops here

\* The people Apollo knows, with or without a revealed email.
ApolloPersons ==
    {[id |-> "p1", first_name |-> "Ada", last_name |-> "Lovelace",
      domain |-> "acme.com", email |-> e] : e \in {None, Some("ada@acme.com")}}

\* enrichPerson / matchPersonByName: { person: Person | null }
PersonAnswers == {None} \cup {Some(x) : x \in ApolloPersons}

\* What the callers ask for.
EnrichIds == {"p1"}
MatchKeys ==
    {[firstName |-> "ada", lastName |-> "Lovelace", organizationDomain |-> "acme.com"]}
CallerOrgs == {"org-1", "org-2"}

\* SQL LOWER on the names of the model.
Lower(s) ==
    CASE s = "Ada" -> "ada"
      [] s = "Lovelace" -> "lovelace"
      [] OTHER -> s

NoReply ==
    [status |-> 0, enrichmentId |-> None, person |-> None, cached |-> FALSE,
     results |-> <<>>, people |-> <<>>]

IdleWorker ==
    [ pc |-> "idle", route |-> "none",
      last |-> "idle",             \* the step at which the handler answered
      orgId |-> "org-1", runId |-> 0,
      apolloPersonId |-> "", firstName |-> "", lastName |-> "",
      organizationDomain |-> "",
      cached |-> None,             \* the cache row found
      calls |-> 0,                 \* upstream calls of this request
      person |-> None,             \* result.person
      enrichmentId |-> None,
      run |-> None,                \* enrichRun.id / matchRun.id / cachedRun.id
      items |-> <<>>,              \* /match/bulk: parsed.data.items
      cacheResults |-> <<>>,
      sent |-> <<>>,               \* missItems, as passed to the bulk call
      apolloResults |-> <<>>,      \* bulkResult.matches
      apolloResultIdx |-> 0,
      i |-> 0,                     \* items assembled so far
      totalCreditsToCharge |-> 0,
      results |-> <<>>,
      people |-> <<>>,             \* /search: result.people
      search |-> None,             \* /search: the apolloPeopleSearches row
      attempt |-> 0,               \* /search/params: the loop counter
      llmCalls |-> 0,              \* callClaude calls of this request
      llmResponse |-> None,
      totalResults |-> 0,
      attemptHistory |-> <<>>,
      finalParams |-> <<>>,
      finalTotalResults |-> 0,
      error |-> "",                \* the call whose failure the catch block rethrows
      body |-> None,               \* /search/params: the 200 body
      res |-> NoReply ]

Reply(w, enrichmentId, person, cached, at) ==
    [w EXCEPT !.pc = "done", !.last = at,
              !.res = [status |-> 200, enrichmentId |-> enrichmentId,
                       person |-> person, cached |-> cached,
                       results |-> <<>>, people |-> <<>>]]

Throw(w, status, at) ==
    [w EXCEPT !.pc = "done", !.last = at,
              !.res = [status |-> status, enrichmentId |-> None,
                       person |-> None, cached |-> FALSE, results |-> <<>>,
                       people |-> <<>>]]

---------------------------------------------------------------------------
Init ==
    /\ cursors = {}
    /\ nreq = 0
    /\ handler = [p \in Procs |-> IdleHandler]
    /\ enrichments = <<>>
    /\ runs = <<>>
    /\ now = 0
    /\ worker = IdleWorker

---------------------------------------------------------------------------
(* POST /search/next *)

\* select().from(apolloSearchCursors).where(orgId, campaignId).limit(1)
SelectCursor(orgId, campaignId) ==
    LET m == {r \in cursors : r.orgId = orgId /\ r.campaignId = campaignId}
    IN  IF m = {} THEN None ELSE Some(CHOOSE r \in m : TRUE)

\* The table without its unique index.
NoUniqueIndex(orgId, campaignId) == FALSE

\* uniqueIndex("idx_cursors_org_campaign").on(orgId, campaignId)
UniqueViolation(orgId, campaignId) ==
    \E r \in cursors : r.orgId = orgId /\ r.campaignId = campaignId

\* JSON.stringify(existingCursor.searchParams) !== JSON.stringify(searchParams)
ParamsChanged(stored, supplied) ==
    JSONstringify(stored) # JSONstringify(supplied)

CeilDiv(a, b) == (a + b - 1) \div b

\* The doneness without the hard page ceiling.
IsDoneWithoutCeiling(peopleLength, nextPage, totalEntries) ==
    \/ peopleLength = 0
    \/ nextPage > CeilDiv(totalEntries, PerPage)

\* The last page taken for the one after it.
IsDoneAtLastPage(peopleLength, nextPage, totalEntries) ==
    \/ peopleLength = 0
    \/ nextPage >= CeilDiv(totalEntries, PerPage)
    \/ nextPage > PageCeiling

\* The doneness without the empty-page test.
IsDoneUnlessEmpty(peopleLength, nextPage, totalEntries) ==
    \/ nextPage > CeilDiv(totalEntries, PerPage)
    \/ nextPage > PageCeiling

\* done = people.length === 0 || nextPage > totalPages || nextPage > 500
IsDone(peopleLength, nextPage, totalEntries) ==
    \/ peopleLength = 0
    \/ nextPage > CeilDiv(totalEntries, PerPage)
    \/ nextPage > PageCeiling

\* The resumption without the early return of an exhausted cursor.
ResumeIgnoresExhausted(h, cur) ==
    [h EXCEPT !.cursorSearchParams = cur.searchParams,
              !.currentPage = cur.currentPage,
              !.isExhausted = cur.exhausted,
              !.pc = "search"]

\* "Same params" and "no searchParams" branches: resume from the stored
\* cursor, and answer at once when it is exhausted.
Resume(h, cur) ==
    LET h2 == [h EXCEPT !.cursorSearchParams = cur.searchParams,
                        !.currentPage = cur.currentPage,
                        !.isExhausted = cur.exhausted]
    IN  IF h2.isExhausted
        THEN Json(h2, 0, TRUE, cur.totalEntries, "exhausted")
        ELSE [h2 EXCEPT !.pc = "search"]

\* The lookup block answering an empty page, not 400, when there is neither
\* a cursor nor filters.
ResolvedEmptyInsteadOf400(h, ex) ==
    LET h1 == [h EXCEPT !.existingCursor = ex,
                        !.cursorId = IF ex = None THEN None ELSE Some(ex[1].id)]
    IN  IF h.searchParams # None
        THEN IF ex = None
             THEN [h1 EXCEPT !.pc = "insert"]
             ELSE IF ParamsChanged(ex[1].searchParams, h.searchParams[1])
                  THEN [h1 EXCEPT !.pc = "reset"]
                  ELSE Resume(h1, ex[1])
        ELSE IF ex = None
             THEN Json(h1, 0, TRUE, 0, "lookup")
             ELSE Resume(h1, ex[1])

\* The synchronous block after the cursor lookup: which of create, reset,
\* resume or reject the request is.
Resolved(h, ex) ==
    LET h1 == [h EXCEPT !.existingCursor = ex,
                        !.cursorId = IF ex = None THEN None ELSE Some(ex[1].id)]
    IN  IF h.searchParams # None
        THEN IF ex = None
             THEN [h1 EXCEPT !.pc = "insert"]
             ELSE IF ParamsChanged(ex[1].searchParams, h.searchParams[1])
                  THEN [h1 EXCEPT !.pc = "reset"]
                  ELSE Resume(h1, ex[1])
        ELSE IF ex = None
             THEN Fail(h1, 400, "lookup")
             ELSE Resume(h1, ex[1])

\* The cursor created at page 0.
NewCursorAtPageZero(id, h) ==
    [ id |-> id, orgId |-> h.orgId, campaignId |-> h.campaignId,
      searchParams |-> Jsonb(h.searchParams[1]),
      currentPage |-> 0, totalEntries |-> 0, exhausted |-> FALSE ]

NewCursor(id, h) ==
    [ id |-> id, orgId |-> h.orgId, campaignId |-> h.campaignId,
      searchParams |-> Jsonb(h.searchParams[1]),
      currentPage |-> 1, totalEntries |-> 0, exhausted |-> FALSE ]

\* The reset write without the new filters.
ResetRowKeepsFilters(r, searchParams) ==
    [r EXCEPT !.currentPage = 1, !.totalEntries = 0, !.exhausted = FALSE]

\* The reset write without exhausted: false.
ResetRowKeepsExhausted(r, searchParams) ==
    [r EXCEPT !.searchParams = Jsonb(searchParams), !.currentPage = 1,
              !.totalEntries = 0]

\* update(apolloSearchCursors).set({searchParams, currentPage: 1, ...})
ResetRow(r, searchParams) ==
    [r EXCEPT !.searchParams = Jsonb(searchParams), !.currentPage = 1,
              !.totalEntries = 0, !.exhausted = FALSE]

\* The advance computed from the row as it stands when the write is applied.
AdvanceRowFromStored(r, nextPage, totalEntries, done) ==
    [r EXCEPT !.currentPage = r.currentPage + 1, !.totalEntries = totalEntries,
              !.exhausted = done]

\* update(apolloSearchCursors).set({currentPage: nextPage, totalEntries, exhausted: done})
AdvanceRow(r, nextPage, totalEntries, done) ==
    [r EXCEPT !.currentPage = nextPage, !.totalEntries = totalEntries,
              !.exhausted = done]

UpdateWhereId(id, f(_)) ==
    {IF r.id = id THEN f(r) ELSE r : r \in cursors}

\* The search cost posted only for a page that has people.
SearchCostLinesWhenPeople(h) ==
    IF h.people = 0 THEN <<>>
    ELSE <<[costName |-> "apollo-search-credit", quantity |-> 1]>>

\* The cost lines a /search/next request posts for the page it fetched.
SearchCostLines(h) == <<[costName |-> "apollo-search-credit", quantity |-> 1]>>

NewRun(parentRunId, taskName) ==
    [parentRunId |-> parentRunId, taskName |-> taskName,
     status |-> "running", costs |-> <<>>]

SearchRow(h) ==
    [ orgId |-> h.orgId, runId |-> h.runId, campaignId |-> h.campaignId,
      requestParams |-> h.apolloParams[1],
      peopleCount |-> h.people, totalEntries |-> h.totalEntries ]

Set(p, h) == handler' = [handler EXCEPT ![p] = h]

\* A request arrives: SearchNextRequestSchema.safeParse (an invalid body is
\* answered 400), then await getByokKey(...), which may throw.
NextStart(p) ==
    /\ ~InFlight(p)
    /\ nreq < MaxRequests
    /\ nreq' = nreq + 1
    /\ UNCHANGED <<cursors, evars>>
    /\ \/ Set(p, Fail([IdleHandler EXCEPT !.runId = nreq + 1], 400, "validate"))
       \/ Set(p, Fail([IdleHandler EXCEPT !.runId = nreq + 1], 500, "getKey"))
       \/ \E o \in Orgs, c \in Campaigns,
             sp \in {None} \cup {Some(ZodParse(b)) : b \in Bodies} :
            handler' = [q \in Procs |->
                IF q = p
                THEN [IdleHandler EXCEPT
                        !.pc = "lookup", !.orgId = o, !.campaignId = c,
                        !.runId = nreq + 1, !.searchParams = sp,
                        !.solo = \A x \in Procs \ {p} : ~InFlight(x)]
                ELSE IF InFlight(q) THEN [handler[q] EXCEPT !.solo = FALSE]
                     ELSE handler[q]]

\* const [existingCursor] = await db.select()... and the branch that follows
Lookup(p) ==
    LET h == handler[p] IN
    /\ h.pc = "lookup"
    /\ UNCHANGED <<cursors, nreq, evars>>
    /\ Set(p, Resolved(h, SelectCursor(h.orgId, h.campaignId)))

\* await db.insert(apolloSearchCursors).values({...}).returning()
InsertCursor(p) ==
    LET h == handler[p]
        id == Cardinality(cursors) + 1 IN
    /\ h.pc = "insert"
    /\ UNCHANGED <<nreq, evars>>
    /\ \/ /\ UniqueViolation(h.orgId, h.campaignId)
          /\ UNCHANGED cursors
          /\ Set(p, Fail(h, 500, "insert"))
       \/ /\ ~UniqueViolation(h.orgId, h.campaignId)
          /\ cursors' = cursors \cup {NewCursor(id, h)}
          /\ Set(p, [h EXCEPT !.cursorId = Some(id),
                              !.cursorSearchParams = h.searchParams[1],
                              !.currentPage = 1, !.pc = "search"])

\* await db.update(apolloSearchCursors).set({...}).where(id = existingCursor.id)
ResetCursor(p) ==
    LET h == handler[p]
        reset(r) == ResetRow(r, h.searchParams[1]) IN
    /\ h.pc = "reset"
    /\ UNCHANGED <<nreq, evars>>
    /\ cursors' = UpdateWhereId(h.existingCursor[1].id, reset)
    /\ Set(p, [h EXCEPT !.cursorSearchParams = h.searchParams[1],
                        !.currentPage = 1, !.pc = "search"])

\* The upstream search attempted again when it fails.
SearchRetries(p) ==
    LET h == handler[p]
        called == [h EXCEPT !.calls = @ + 1,
                     !.apolloParams = Some([params |-> h.cursorSearchParams,
                                            page |-> h.currentPage,
                                            per_page |-> PerPage])] IN
    /\ h.pc = "search"
    /\ UNCHANGED <<cursors, nreq, evars>>
    /\ \/ Set(p, IF h.calls = 0 THEN called ELSE Fail(called, 500, "search"))
       \/ \E r \in ApolloSearchResponsesFor(h.currentPage) :
            Set(p, [called EXCEPT
                      !.people = r.people,
                      !.totalEntries = r.total_entries,
                      !.nextPage = h.currentPage + 1,
                      !.done = IsDone(r.people, h.currentPage + 1, r.total_entries),
                      !.pc = "advance"])

\* const result = await searchPeople(apolloApiKey, apolloParams)
Search(p) ==
    LET h == handler[p]
        called == [h EXCEPT !.calls = @ + 1,
                     !.apolloParams = Some([params |-> h.cursorSearchParams,
                                            page |-> h.currentPage,
                                            per_page |-> PerPage])] IN
    /\ h.pc = "search"
    /\ UNCHANGED <<cursors, nreq, evars>>
    /\ \/ Set(p, Fail(called, 500, "search"))
       \/ \E r \in ApolloSearchResponsesFor(h.currentPage) :
            Set(p, [called EXCEPT
                      !.people = r.people,
                      !.totalEntries = r.total_entries,
                      !.nextPage = h.currentPage + 1,
                      !.done = IsDone(r.people, h.currentPage + 1, r.total_entries),
                      !.pc = "advance"])

\* if (cursorId) await db.update(apolloSearchCursors).set({...}).where(id = cursorId)
Advance(p) ==
    LET h == handler[p]
        adv(r) == AdvanceRow(r, h.nextPage, h.totalEntries, h.done) IN
    /\ h.pc = "advance"
    /\ UNCHANGED <<nreq, evars>>
    /\ cursors' = IF h.cursorId # None
                  THEN UpdateWhereId(h.cursorId[1], adv) ELSE cursors
    /\ Set(p, [h EXCEPT !.pc = "createRun"])

\* const searchRun = await createRun({..., parentRunId: runId}), which may
\* throw; then await db.insert(apolloPeopleSearches).values({...})
CreateRun(p) ==
    LET h == handler[p] IN
    /\ h.pc = "createRun"
    /\ UNCHANGED <<cursors, nreq, evars>>
    /\ \/ Set(p, [h EXCEPT !.searchRun = Some(NewRun(h.runId, "people-search-next")),
                           !.search = Some(SearchRow(h)),
                           !.pc = "addCosts"])
       \/ Set(p, Fail(h, 500, "createRun"))

\* await addCosts(searchRun.id, [{ costName: "apollo-search-credit", quantity: 1 }])
AddCosts(p) ==
    LET h == handler[p] IN
    /\ h.pc = "addCosts"
    /\ UNCHANGED <<cursors, nreq, evars>>
    /\ \/ Set(p, [h EXCEPT !.pc = "updateRun",
                           !.searchRun[1].costs = @ \o SearchCostLines(h)])
       \/ Set(p, Fail(h, 500, "addCosts"))

\* The completion of the run treated as best effort: its failure swallowed.
UpdateRunSwallowsFailure(p) ==
    LET h == handler[p] IN
    /\ h.pc = "updateRun"
    /\ UNCHANGED <<cursors, nreq, evars>>
    /\ \/ Set(p, Json([h EXCEPT !.searchRun[1].status = "completed"],
                      h.people, h.done, h.totalEntries, "ok"))
       \/ Set(p, Json(h, h.people, h.done, h.totalEntries, "updateRun"))

\* await updateRun(searchRun.id, "completed"); res.json({people, done, totalEntries})
UpdateRun(p) ==
    LET h == handler[p] IN
    /\ h.pc = "updateRun"
    /\ UNCHANGED <<cursors, nreq, evars>>
    /\ \/ Set(p, Json([h EXCEPT !.searchRun[1].status = "completed"],
                      h.people, h.done, h.totalEntries, "ok"))
       \/ Set(p, Fail(h, 500, "updateRun"))

Next ==
    \E p \in Procs :
        \/ NextStart(p)
        \/ Lookup(p)
        \/ InsertCursor(p)
        \/ ResetCursor(p)
        \/ Search(p)
        \/ Advance(p)
        \/ CreateRun(p)
        \/ AddCosts(p)
        \/ UpdateRun(p)

Spec == Init /\ [][Next]_vars

\* A campaign that has no cursor yet, or one whose pagination has come near
\* the page ceiling.
LateCursors ==
    {[ id |-> 1, orgId |-> "org-1", campaignId |-> "campaign-1",
       searchParams |-> Jsonb(<< <<"personTitles", "CEO">> >>),
       currentPage |-> pg, totalEntries |-> 20000, exhausted |-> FALSE ] :
        pg \in {PageCeiling - 1, PageCeiling}}

InitLate ==
    /\ cursors \in {{}} \cup {{c} : c \in LateCursors}
    /\ nreq = 1
    /\ handler = [p \in Procs |-> IdleHandler]
    /\ enrichments = <<>>
    /\ runs = <<>>
    /\ now = 0
    /\ worker = IdleWorker

SpecLate == InitLate /\ [][Next]_vars

---------------------------------------------------------------------------
(* POST /enrich and POST /match *)

Put(w) == worker' = w
Busy == worker.pc \notin {"idle", "done"}
Rows == {enrichments[i] : i \in DOMAIN enrichments}

\* The cache condition with half the window.
FreshHalfWindow(r) == r.email # None /\ 2 * r.createdAt > 2 * now - CacheMonths

\* The cache condition without the age limit.
FreshWhateverAge(r) == r.email # None

\* isNotNull(email) and gt(createdAt, twelveMonthsAgo)
Fresh(r) == r.email # None /\ r.createdAt > now - CacheMonths

\* orderBy(desc(createdAt)).limit(1): the newest (any of them when tied)
Newest(S) == {r \in S : \A r2 \in S : r2.createdAt <= r.createdAt}
Pick(S) == IF S = {} THEN {None} ELSE {Some(r) : r \in Newest(S)}

\* /enrich: the cache query by apolloPersonId
CachedById(apolloPersonId) ==
    {r \in Rows : r.apolloPersonId = apolloPersonId /\ Fresh(r)}

\* findCachedMatch(firstName, lastName, organizationDomain)
FindCachedMatch(firstName, lastName, organizationDomain) ==
    {r \in Rows : /\ Lower(r.firstName) = Lower(firstName)
                  /\ Lower(r.lastName) = Lower(lastName)
                  /\ Lower(r.organizationDomain) = Lower(organizationDomain)
                  /\ Fresh(r)}

\* transformCachedEnrichment(apolloPersonId, cached): the person of a cache row
CachedPerson(apolloPersonId, r) ==
    [id |-> apolloPersonId, first_name |-> r.firstName, last_name |-> r.lastName,
     domain |-> r.organizationDomain, email |-> r.email]

\* The row written without the pointer to the run.
EnrichmentRowUnlinked(id, w, person, enrichmentRunId) ==
    [ id |-> id, orgId |-> w.orgId, runId |-> w.runId,
      apolloPersonId |-> person.id, firstName |-> person.first_name,
      lastName |-> person.last_name, organizationDomain |-> person.domain,
      email |-> person.email, enrichmentRunId |-> None,
      createdAt |-> now ]

\* insert(apolloPeopleEnrichments).values({orgId, runId, ...toEnrichmentDbValues(person)})
EnrichmentRow(id, w, person, enrichmentRunId) ==
    [ id |-> id, orgId |-> w.orgId, runId |-> w.runId,
      apolloPersonId |-> person.id, firstName |-> person.first_name,
      lastName |-> person.last_name, organizationDomain |-> person.domain,
      email |-> person.email, enrichmentRunId |-> enrichmentRunId,
      createdAt |-> now ]

\* /enrich: the cost lines posted for a person Apollo returned
EnrichCostLines(person) ==
    <<[costName |-> "apollo-enrichment-credit", quantity |-> 1]>>

\* /match charging for every person found, with or without email.
MatchChargesAnyPerson(person) == TRUE

\* /match: if (person.email) addCosts(...)
MatchCharges(person) == person.email # None

MatchCostLines(person) ==
    <<[costName |-> "apollo-person-match-credit", quantity |-> 1]>>

\* The clock advances.
Tick ==
    /\ now + TickMonths <= MaxNow
    /\ now' = now + TickMonths
    /\ UNCHANGED <<cvars, nreq, enrichments, runs, worker>>

\* EnrichRequestSchema.safeParse: an invalid body is answered 400.
EnrichStart ==
    /\ ~Busy
    /\ nreq < MaxRequests
    /\ nreq' = nreq + 1
    /\ UNCHANGED <<cvars, enrichments, runs, now>>
    /\ \/ Put(Throw([IdleWorker EXCEPT !.route = "enrich", !.runId = nreq + 1],
                    400, "validate"))
       \/ \E o \in CallerOrgs, id \in EnrichIds :
            Put([IdleWorker EXCEPT !.pc = "cache", !.route = "enrich",
                                   !.orgId = o, !.runId = nreq + 1,
                                   !.apolloPersonId = id])

\* const [cached] = await db.select()...; if (cached) return res.json(...)
EnrichCache ==
    /\ worker.route = "enrich" /\ worker.pc = "cache"
    /\ UNCHANGED <<cvars, nreq, enrichments, runs, now>>
    /\ \E c \in Pick(CachedById(worker.apolloPersonId)) :
         IF c # None
         THEN Put(Reply([worker EXCEPT !.cached = c], None,
                        Some(CachedPerson(worker.apolloPersonId, c[1])),
                        FALSE, "cached"))
         ELSE Put([worker EXCEPT !.pc = "getKey"])

\* const apolloApiKey = await getByokKey(...)
EnrichGetKey ==
    /\ worker.route = "enrich" /\ worker.pc = "getKey"
    /\ UNCHANGED <<cvars, nreq, enrichments, runs, now>>
    /\ \/ Put([worker EXCEPT !.pc = "call"])
       \/ Put(Throw(worker, 500, "getKey"))

\* const result = await enrichPerson(apolloApiKey, apolloPersonId)
EnrichCall ==
    LET called == [worker EXCEPT !.calls = @ + 1] IN
    /\ worker.route = "enrich" /\ worker.pc = "call"
    /\ UNCHANGED <<cvars, nreq, enrichments, runs, now>>
    /\ \/ Put(Throw(called, 500, "call"))
       \/ \E a \in PersonAnswers :
            IF a # None
            THEN Put([called EXCEPT !.person = a, !.pc = "insert"])
            ELSE Put(Reply(called, None, None, FALSE, "ok"))

\* const [enrichment] = await db.insert(apolloPeopleEnrichments)...returning()
EnrichInsert ==
    LET id == Len(enrichments) + 1 IN
    /\ worker.route = "enrich" /\ worker.pc = "insert"
    /\ UNCHANGED <<cvars, nreq, runs, now>>
    /\ enrichments' = Append(enrichments,
                             EnrichmentRow(id, worker, worker.person[1], None))
    /\ Put([worker EXCEPT !.enrichmentId = Some(id), !.pc = "createRun"])

\* const enrichRun = await createRun({..., taskName: "enrichment", parentRunId: runId})
EnrichCreateRun ==
    /\ worker.route = "enrich" /\ worker.pc = "createRun"
    /\ UNCHANGED <<cvars, nreq, enrichments, now>>
    /\ \/ /\ runs' = Append(runs, NewRun(worker.runId, "enrichment"))
          /\ Put([worker EXCEPT !.run = Some(Len(runs) + 1), !.pc = "link"])
       \/ /\ UNCHANGED runs
          /\ Put(Throw(worker, 500, "createRun"))

\* await db.update(apolloPeopleEnrichments).set({ enrichmentRunId: enrichRun.id })
EnrichLink ==
    /\ worker.route = "enrich" /\ worker.pc = "link"
    /\ UNCHANGED <<cvars, nreq, runs, now>>
    /\ enrichments' = [enrichments EXCEPT
                          ![worker.enrichmentId[1]].enrichmentRunId = worker.run]
    /\ Put([worker EXCEPT !.pc = "addCosts"])

\* The record taken back when the cost posting fails.
EnrichAddCostsRollsBack ==
    /\ worker.route = "enrich" /\ worker.pc = "addCosts"
    /\ UNCHANGED <<cvars, nreq, now>>
    /\ \/ /\ runs' = [runs EXCEPT ![worker.run[1]].costs =
                                    @ \o EnrichCostLines(worker.person[1])]
          /\ UNCHANGED enrichments
          /\ Put([worker EXCEPT !.pc = "updateRun"])
       \/ /\ UNCHANGED runs
          /\ enrichments' = SubSeq(enrichments, 1, Len(enrichments) - 1)
          /\ Put(Throw(worker, 500, "addCosts"))

\* The cost posting of /enrich treated as best effort: its failure swallowed.
EnrichAddCostsBestEffort ==
    /\ worker.route = "enrich" /\ worker.pc = "addCosts"
    /\ UNCHANGED <<cvars, nreq, enrichments, now>>
    /\ \/ /\ runs' = [runs EXCEPT ![worker.run[1]].costs =
                                    @ \o EnrichCostLines(worker.person[1])]
          /\ Put([worker EXCEPT !.pc = "updateRun"])
       \/ /\ UNCHANGED runs
          /\ Put([worker EXCEPT !.pc = "updateRun"])

\* await addCosts(enrichRun.id, [{ costName: "apollo-enrichment-credit", quantity: 1 }])
EnrichAddCosts ==
    /\ worker.route = "enrich" /\ worker.pc = "addCosts"
    /\ UNCHANGED <<cvars, nreq, enrichments, now>>
    /\ \/ /\ runs' = [runs EXCEPT ![worker.run[1]].costs =
                                    @ \o EnrichCostLines(worker.person[1])]
          /\ Put([worker EXCEPT !.pc = "updateRun"])
       \/ /\ UNCHANGED runs
          /\ Put(Throw(worker, 500, "addCosts"))

\* await updateRun(enrichRun.id, "completed"); res.json({ enrichmentId, person })
EnrichUpdateRun ==
    /\ worker.route = "enrich" /\ worker.pc = "updateRun"
    /\ UNCHANGED <<cvars, nreq, enrichments, now>>
    /\ \/ /\ runs' = [runs EXCEPT ![worker.run[1]].status = "completed"]
          /\ Put(Reply(worker, worker.enrichmentId, worker.person, FALSE, "ok"))
       \/ /\ UNCHANGED runs
          /\ Put(Throw(worker, 500, "updateRun"))

\* MatchRequestSchema.safeParse: an invalid body is answered 400.
MatchStart ==
    /\ ~Busy
    /\ nreq < MaxRequests
    /\ nreq' = nreq + 1
    /\ UNCHANGED <<cvars, enrichments, runs, now>>
    /\ \/ Put(Throw([IdleWorker EXCEPT !.route = "match", !.runId = nreq + 1],
                    400, "validate"))
       \/ \E o \in CallerOrgs, k \in MatchKeys :
            Put([IdleWorker EXCEPT !.pc = "cache", !.route = "match",
                                   !.orgId = o, !.runId = nreq + 1,
                                   !.firstName = k.firstName,
                                   !.lastName = k.lastName,
                                   !.organizationDomain = k.organizationDomain])

\* The cache-hit branch of /match without its return.
MatchCacheFallsThrough ==
    /\ worker.route = "match" /\ worker.pc = "cache"
    /\ UNCHANGED <<cvars, nreq, enrichments, runs, now>>
    /\ \E c \in Pick(FindCachedMatch(worker.firstName, worker.lastName,
                                      worker.organizationDomain)) :
         Put([worker EXCEPT !.cached = c, !.pc = "getKey"])

\* const cached = await findCachedMatch(firstName, lastName, organizationDomain)
MatchCache ==
    /\ worker.route = "match" /\ worker.pc = "cache"
    /\ UNCHANGED <<cvars, nreq, enrichments, runs, now>>
    /\ \E c \in Pick(FindCachedMatch(worker.firstName, worker.lastName,
                                      worker.organizationDomain)) :
         IF c # None
         THEN Put([worker EXCEPT !.cached = c, !.pc = "hitRun"])
         ELSE Put([worker EXCEPT !.pc = "getKey"])

\* cache hit: const cachedRun = await createRun({...})
MatchHitRun ==
    /\ worker.route = "match" /\ worker.pc = "hitRun"
    /\ UNCHANGED <<cvars, nreq, enrichments, now>>
    /\ \/ /\ runs' = Append(runs, NewRun(worker.runId, "person-match"))
          /\ Put([worker EXCEPT !.run = Some(Len(runs) + 1), !.pc = "hitDone"])
       \/ /\ UNCHANGED runs
          /\ Put(Throw(worker, 500, "createRun"))

\* The cache hit charged like a match.
MatchHitDoneCharged ==
    /\ worker.route = "match" /\ worker.pc = "hitDone"
    /\ UNCHANGED <<cvars, nreq, enrichments, now>>
    /\ \/ /\ runs' = [runs EXCEPT ![worker.run[1]].status = "completed",
                                  ![worker.run[1]].costs =
                                      @ \o MatchCostLines(worker.cached[1])]
          /\ Put(Reply(worker, None,
                       Some(CachedPerson(worker.cached[1].apolloPersonId,
                                         worker.cached[1])),
                       TRUE, "cached"))
       \/ /\ UNCHANGED runs
          /\ Put(Throw(worker, 500, "updateRun"))

\* cache hit: await updateRun(cachedRun.id, "completed"); res.json({..., cached: true})
MatchHitDone ==
    /\ worker.route = "match" /\ worker.pc = "hitDone"
    /\ UNCHANGED <<cvars, nreq, enrichments, now>>
    /\ \/ /\ runs' = [runs EXCEPT ![worker.run[1]].status = "completed"]
          /\ Put(Reply(worker, None,
                       Some(CachedPerson(worker.cached[1].apolloPersonId,
                                         worker.cached[1])),
                       TRUE, "cached"))
       \/ /\ UNCHANGED runs
          /\ Put(Throw(worker, 500, "updateRun"))

\* const apolloApiKey = await getByokKey(...)
MatchGetKey ==
    /\ worker.route = "match" /\ worker.pc = "getKey"
    /\ UNCHANGED <<cvars, nreq, enrichments, runs, now>>
    /\ \/ Put([worker EXCEPT !.pc = "call"])
       \/ Put(Throw(worker, 500, "getKey"))

\* const result = await matchPersonByName(apolloApiKey, firstName, lastName, organizationDomain)
MatchCall ==
    LET called == [worker EXCEPT !.calls = @ + 1] IN
    /\ worker.route = "match" /\ worker.pc = "call"
    /\ UNCHANGED <<cvars, nreq, enrichments, runs, now>>
    /\ \/ Put(Throw(called, 500, "call"))
       \/ \E a \in PersonAnswers :
            Put([called EXCEPT !.person = a, !.pc = "createRun"])

\* const matchRun = await createRun({..., taskName: "person-match", parentRunId: runId})
MatchCreateRun ==
    /\ worker.route = "match" /\ worker.pc = "createRun"
    /\ UNCHANGED <<cvars, nreq, enrichments, now>>
    /\ \/ /\ runs' = Append(runs, NewRun(worker.runId, "person-match"))
          /\ Put([worker EXCEPT !.run = Some(Len(runs) + 1),
                                !.pc = IF worker.person # None
                                       THEN "insert" ELSE "updateRun"])
       \/ /\ UNCHANGED runs
          /\ Put(Throw(worker, 500, "createRun"))

\* if (person) { insert(...).values({..., enrichmentRunId: matchRun.id}) ... }
MatchInsert ==
    LET id == Len(enrichments) + 1 IN
    /\ worker.route = "match" /\ worker.pc = "insert"
    /\ UNCHANGED <<cvars, nreq, runs, now>>
    /\ enrichments' = Append(enrichments,
                             EnrichmentRow(id, worker, worker.person[1], worker.run))
    /\ Put([worker EXCEPT !.enrichmentId = Some(id),
                          !.pc = IF MatchCharges(worker.person[1])
                                 THEN "addCosts" ELSE "updateRun"])

\* The cost posting of /match treated as best effort: its failure swallowed.
MatchAddCostsBestEffort ==
    /\ worker.route = "match" /\ worker.pc = "addCosts"
    /\ UNCHANGED <<cvars, nreq, enrichments, now>>
    /\ \/ /\ runs' = [runs EXCEPT ![worker.run[1]].costs =
                                    @ \o MatchCostLines(worker.person[1])]
          /\ Put([worker EXCEPT !.pc = "updateRun"])
       \/ /\ UNCHANGED runs
          /\ Put([worker EXCEPT !.pc = "updateRun"])

\* await addCosts(matchRun.id, [{ costName: "apollo-person-match-credit", quantity: 1 }])
MatchAddCosts ==
    /\ worker.route = "match" /\ worker.pc = "addCosts"
    /\ UNCHANGED <<cvars, nreq, enrichments, now>>
    /\ \/ /\ runs' = [runs EXCEPT ![worker.run[1]].costs =
                                    @ \o MatchCostLines(worker.person[1])]
          /\ Put([worker EXCEPT !.pc = "updateRun"])
       \/ /\ UNCHANGED runs
          /\ Put(Throw(worker, 500, "addCosts"))

\* await updateRun(matchRun.id, "completed"); res.json({..., cached: false})
MatchUpdateRun ==
    /\ worker.route = "match" /\ worker.pc = "updateRun"
    /\ UNCHANGED <<cvars, nreq, enrichments, now>>
    /\ \/ /\ runs' = [runs EXCEPT ![worker.run[1]].status = "completed"]
          /\ Put(Reply(worker, worker.enrichmentId, worker.person, FALSE, "ok"))
       \/ /\ UNCHANGED runs
          /\ Put(Throw(worker, 500, "updateRun"))

NextEnrich ==
    \/ Tick
    \/ EnrichStart
    \/ EnrichCache
    \/ EnrichGetKey
    \/ EnrichCall
    \/ EnrichInsert
    \/ EnrichCreateRun
    \/ EnrichLink
    \/ EnrichAddCosts
    \/ EnrichUpdateRun
    \/ MatchStart
    \/ MatchCache
    \/ MatchHitRun
    \/ MatchHitDone
    \/ MatchGetKey
    \/ MatchCall
    \/ MatchCreateRun
    \/ MatchInsert
    \/ MatchAddCosts
    \/ MatchUpdateRun

SpecEnrich == Init /\ [][NextEnrich]_vars

---------------------------------------------------------------------------
(* POST /match/bulk *)

MaxItems == 2           \* items per batch in the model (the schema allows 1..10)
MaxBatches == 2         \* /match/bulk requests in a behaviour

\* The items the callers send.
BulkKeys ==
    MatchKeys \cup
    {[firstName |-> "bob", lastName |-> "ross", organizationDomain |-> "acme.com"]}
BulkItems ==
    UNION {[1..n -> BulkKeys] : n \in 1..MaxItems}

\* What Apollo may answer for one item of a bulk call: nobody, or the person
\* of that name, with or without email.
BulkAnswersFor(item) ==
    IF item \in MatchKeys THEN PersonAnswers
    ELSE {None} \cup
         {Some([id |-> "p2", first_name |-> item.firstName,
                last_name |-> item.lastName,
                domain |-> item.organizationDomain, email |-> e]) :
            e \in {None, Some("bob@acme.com")}}

\* bulkMatchPeopleByName: { matches: (Person | null)[] } in input order.
BulkMatches(missItems) ==
    {m \in [DOMAIN missItems -> UNION {BulkAnswersFor(k) : k \in BulkKeys}] :
        \A k \in DOMAIN missItems : m[k] \in BulkAnswersFor(missItems[k])}

\* Every index taken as a miss.
AllIndices(cacheResults) == [k \in DOMAIN cacheResults |-> k]

\* for (i...) if (!cacheResults[i]) missIndices.push(i)
MissIndices(cacheResults) ==
    SelectSeq([k \in DOMAIN cacheResults |-> k],
              LAMBDA k : cacheResults[k] = None)

\* missIndices.map((i) => ({ first_name: items[i].firstName, ... }))
MissItems(items, missIndices) ==
    [k \in DOMAIN missIndices |-> items[missIndices[k]]]

\* The answer looked up by the position of the item in the batch.
MissAnswerByItemIndex(w) ==
    IF w.i + 1 \in DOMAIN w.apolloResults
    THEN w.apolloResults[w.i + 1] ELSE None

\* const person = apolloResults[apolloResultIdx] ?? null
MissAnswer(w) ==
    IF w.apolloResultIdx + 1 \in DOMAIN w.apolloResults
    THEN w.apolloResults[w.apolloResultIdx + 1] ELSE None

\* Every person found charged, with or without email.
BulkCreditsAnyPerson(person) == 1

\* if (person.email) totalCreditsToCharge++
BulkCredits(person) == IF person.email # None THEN 1 ELSE 0

\* res.json({ results })
ReplyBulk(w, at) ==
    [w EXCEPT !.pc = "done", !.last = at,
              !.res = [status |-> 200, enrichmentId |-> None, person |-> None,
                       cached |-> FALSE, results |-> w.results,
                       people |-> <<>>]]

\* MatchBulkRequestSchema.safeParse: an invalid body is answered 400.
BulkStart ==
    /\ ~Busy
    /\ nreq < MaxBatches
    /\ nreq' = nreq + 1
    /\ UNCHANGED <<cvars, enrichments, runs, now>>
    /\ \/ Put(Throw([IdleWorker EXCEPT !.route = "bulk", !.runId = nreq + 1],
                    400, "validate"))
       \/ \E o \in CallerOrgs, items \in BulkItems :
            Put([IdleWorker EXCEPT !.pc = "createRun", !.route = "bulk",
                                   !.orgId = o, !.runId = nreq + 1,
                                   !.items = items])

\* const batchRun = await createRun({..., taskName: "person-match-bulk", parentRunId: runId})
BulkCreateRun ==
    /\ worker.route = "bulk" /\ worker.pc = "createRun"
    /\ UNCHANGED <<cvars, nreq, enrichments, now>>
    /\ \/ /\ runs' = Append(runs, NewRun(worker.runId, "person-match-bulk"))
          /\ Put([worker EXCEPT !.run = Some(Len(runs) + 1), !.pc = "cache"])
       \/ /\ UNCHANGED runs
          /\ Put(Throw(worker, 500, "createRun"))

\* const cacheResults = await Promise.all(items.map((item) => findCachedMatch(...)))
BulkCache ==
    /\ worker.route = "bulk" /\ worker.pc = "cache"
    /\ UNCHANGED <<cvars, nreq, enrichments, runs, now>>
    /\ \E cr \in [DOMAIN worker.items -> {None} \cup {Some(r) : r \in Rows}] :
         /\ \A k \in DOMAIN worker.items :
               cr[k] \in Pick(FindCachedMatch(worker.items[k].firstName,
                                              worker.items[k].lastName,
                                              worker.items[k].organizationDomain))
         /\ Put([worker EXCEPT !.cacheResults = cr,
                               !.pc = IF MissIndices(cr) # <<>>
                                      THEN "getKey" ELSE "assemble"])

\* if (missIndices.length > 0) { const apolloApiKey = await getByokKey(...)
BulkGetKey ==
    /\ worker.route = "bulk" /\ worker.pc = "getKey"
    /\ UNCHANGED <<cvars, nreq, enrichments, runs, now>>
    /\ \/ Put([worker EXCEPT !.pc = "call"])
       \/ Put(Throw(worker, 500, "getKey"))

\* const bulkResult = await bulkMatchPeopleByName(apolloApiKey, missItems)
BulkCall ==
    LET missItems == MissItems(worker.items, MissIndices(worker.cacheResults))
        called == [worker EXCEPT !.calls = @ + 1, !.sent = missItems]
    IN  /\ worker.route = "bulk" /\ worker.pc = "call"
        /\ UNCHANGED <<cvars, nreq, enrichments, runs, now>>
        /\ \/ Put(Throw(called, 500, "call"))
           \/ \E m \in BulkMatches(missItems) :
                Put([called EXCEPT !.apolloResults = m, !.pc = "assemble"])

\* One iteration of the assembly loop, and what follows the loop.
BulkAssemble ==
    LET i == worker.i + 1
        cached == worker.cacheResults[i]
        person == MissAnswer(worker)
        id == Len(enrichments) + 1
    IN  /\ worker.route = "bulk" /\ worker.pc = "assemble"
        /\ UNCHANGED <<cvars, nreq, runs, now>>
        /\ IF worker.i >= Len(worker.items)
           THEN /\ UNCHANGED enrichments
                /\ Put([worker EXCEPT !.pc = IF worker.totalCreditsToCharge > 0
                                             THEN "addCosts" ELSE "updateRun"])
           ELSE IF cached # None
           THEN /\ UNCHANGED enrichments
                /\ Put([worker EXCEPT
                          !.i = i,
                          !.results = Append(@,
                             [enrichmentId |-> None,
                              person |-> Some(CachedPerson(cached[1].apolloPersonId,
                                                           cached[1])),
                              cached |-> TRUE])])
           ELSE IF person # None
           THEN /\ enrichments' = Append(enrichments,
                      EnrichmentRow(id, worker, person[1], worker.run))
                /\ Put([worker EXCEPT
                          !.i = i,
                          !.apolloResultIdx = @ + 1,
                          !.totalCreditsToCharge = @ + BulkCredits(person[1]),
                          !.results = Append(@,
                             [enrichmentId |-> Some(id), person |-> person,
                              cached |-> FALSE])])
           ELSE /\ UNCHANGED enrichments
                /\ Put([worker EXCEPT
                          !.i = i,
                          !.apolloResultIdx = @ + 1,
                          !.results = Append(@,
                             [enrichmentId |-> None, person |-> None,
                              cached |-> FALSE])])

\* await addCosts(batchRun.id, [{ costName: "apollo-person-match-credit", quantity: totalCreditsToCharge }])
BulkAddCosts ==
    /\ worker.route = "bulk" /\ worker.pc = "addCosts"
    /\ UNCHANGED <<cvars, nreq, enrichments, now>>
    /\ \/ /\ runs' = [runs EXCEPT ![worker.run[1]].costs =
                        @ \o <<[costName |-> "apollo-person-match-credit",
                                quantity |-> worker.totalCreditsToCharge]>>]
          /\ Put([worker EXCEPT !.pc = "updateRun"])
       \/ /\ UNCHANGED runs
          /\ Put(Throw(worker, 500, "addCosts"))

\* await updateRun(batchRun.id, "completed"); res.json({ results })
BulkUpdateRun ==
    /\ worker.route = "bulk" /\ worker.pc = "updateRun"
    /\ UNCHANGED <<cvars, nreq, enrichments, now>>
    /\ \/ /\ runs' = [runs EXCEPT ![worker.run[1]].status = "completed"]
          /\ Put(ReplyBulk(worker, "ok"))
       \/ /\ UNCHANGED runs
          /\ Put(Throw(worker, 500, "updateRun"))

NextBulk ==
    \/ BulkStart
    \/ BulkCreateRun
    \/ BulkCache
    \/ BulkGetKey
    \/ BulkCall
    \/ BulkAssemble
    \/ BulkAddCosts
    \/ BulkUpdateRun

SpecBulk == Init /\ [][NextBulk]_vars

---------------------------------------------------------------------------
(* POST /search *)

MaxPeople == 2          \* people in a page of /search in the model

\* searchPeople: the pages Apollo may answer.
PeoplePages == UNION {[1..n -> ApolloPersons] : n \in 0..MaxPeople}

\* result.people.filter((p) => !p.email && p.id)
WithoutEmail(people) == {k \in DOMAIN people : people[k].email = None}

\* The page with the cached emails filled in: a person without email gets
\* the email of a fresh cached record of the same apolloPersonId, if any.
FilledPages(people) ==
    {f \in [DOMAIN people -> ApolloPersons] :
        \A k \in DOMAIN people :
            IF people[k].email = None /\ CachedById(people[k].id) # {}
            THEN \E r \in CachedById(people[k].id) :
                    f[k] = [people[k] EXCEPT !.email = r.email]
            ELSE f[k] = people[k]}

\* res.json({ searchId, peopleCount, totalEntries, people, pagination })
ReplySearch(w, people, at) ==
    [w EXCEPT !.pc = "done", !.last = at,
              !.res = [status |-> 200, enrichmentId |-> None, person |-> None,
                       cached |-> FALSE, results |-> <<>>, people |-> people]]

\* SearchRequestSchema.safeParse: an invalid body is answered 400.
SearchStart ==
    /\ ~Busy
    /\ nreq < MaxRequests
    /\ nreq' = nreq + 1
    /\ UNCHANGED <<cvars, enrichments, runs, now>>
    /\ \/ Put(Throw([IdleWorker EXCEPT !.route = "search", !.runId = nreq + 1],
                    400, "validate"))
       \/ \E o \in CallerOrgs :
            Put([IdleWorker EXCEPT !.pc = "getKey", !.route = "search",
                                   !.orgId = o, !.runId = nreq + 1])

\* const apolloApiKey = await getByokKey(...)
SearchGetKey ==
    /\ worker.route = "search" /\ worker.pc = "getKey"
    /\ UNCHANGED <<cvars, nreq, enrichments, runs, now>>
    /\ \/ Put([worker EXCEPT !.pc = "createRun"])
       \/ Put(Throw(worker, 500, "getKey"))

\* The search credit posted up front, when the run is created.
SearchCreateRunCharged ==
    /\ worker.route = "search" /\ worker.pc = "createRun"
    /\ UNCHANGED <<cvars, nreq, enrichments, now>>
    /\ \/ /\ runs' = Append(runs,
                 [NewRun(worker.runId, "people-search") EXCEPT
                    !.costs = <<[costName |-> "apollo-search-credit", quantity |-> 1]>>])
          /\ Put([worker EXCEPT !.run = Some(Len(runs) + 1), !.pc = "call"])
       \/ /\ UNCHANGED runs
          /\ Put(Throw(worker, 500, "createRun"))

\* const searchRun = await createRun({..., taskName: "people-search", parentRunId: runId})
SearchCreateRun ==
    /\ worker.route = "search" /\ worker.pc = "createRun"
    /\ UNCHANGED <<cvars, nreq, enrichments, now>>
    /\ \/ /\ runs' = Append(runs, NewRun(worker.runId, "people-search"))
          /\ Put([worker EXCEPT !.run = Some(Len(runs) + 1), !.pc = "call"])
       \/ /\ UNCHANGED runs
          /\ Put(Throw(worker, 500, "createRun"))

\* const result = await searchPeople(apolloApiKey, apolloParams); then
\* await db.insert(apolloPeopleSearches).values({...}).returning()
SearchCall ==
    LET called == [worker EXCEPT !.calls = @ + 1] IN
    /\ worker.route = "search" /\ worker.pc = "call"
    /\ UNCHANGED <<cvars, nreq, enrichments, runs, now>>
    /\ \/ Put(Throw(called, 500, "call"))
       \/ \E people \in PeoplePages :
            Put([called EXCEPT
                   !.people = people,
                   !.search = Some([orgId |-> worker.orgId, runId |-> worker.runId,
                                    peopleCount |-> Len(people)]),
                   !.pc = "store"])

\* for (const person of result.people) await db.insert(apolloPeopleEnrichments)
\* .values({..., searchId: search.id, ...toEnrichmentDbValues(person)})
SearchStore ==
    LET i == worker.i + 1 IN
    /\ worker.route = "search" /\ worker.pc = "store"
    /\ UNCHANGED <<cvars, nreq, runs, now>>
    /\ IF worker.i >= Len(worker.people)
       THEN /\ UNCHANGED enrichments
            /\ Put([worker EXCEPT !.pc = "addCosts"])
       ELSE /\ enrichments' = Append(enrichments,
                 EnrichmentRow(Len(enrichments) + 1, worker, worker.people[i], None))
            /\ Put([worker EXCEPT !.i = i])

\* The people a search returned charged as enrichments on the search run.
SearchAddCostsPerPerson ==
    /\ worker.route = "search" /\ worker.pc = "addCosts"
    /\ UNCHANGED <<cvars, nreq, enrichments, now>>
    /\ \/ /\ runs' = [runs EXCEPT ![worker.run[1]].costs =
                        @ \o <<[costName |-> "apollo-search-credit", quantity |-> 1]>>
                          \o (IF worker.people = <<>> THEN <<>>
                              ELSE <<[costName |-> "apollo-enrichment-credit",
                                      quantity |-> Len(worker.people)]>>)]
          /\ Put([worker EXCEPT !.pc = "updateRun"])
       \/ /\ UNCHANGED runs
          /\ Put(Throw(worker, 500, "addCosts"))

\* await addCosts(searchRun.id, [{ costName: "apollo-search-credit", quantity: 1 }])
SearchAddCosts ==
    /\ worker.route = "search" /\ worker.pc = "addCosts"
    /\ UNCHANGED <<cvars, nreq, enrichments, now>>
    /\ \/ /\ runs' = [runs EXCEPT ![worker.run[1]].costs =
                        @ \o <<[costName |-> "apollo-search-credit", quantity |-> 1]>>]
          /\ Put([worker EXCEPT !.pc = "updateRun"])
       \/ /\ UNCHANGED runs
          /\ Put(Throw(worker, 500, "addCosts"))

\* await updateRun(searchRun.id, "completed"); with nobody lacking an email
\* the answer follows at once, else the cached emails are read first.
SearchUpdateRun ==
    /\ worker.route = "search" /\ worker.pc = "updateRun"
    /\ UNCHANGED <<cvars, nreq, enrichments, now>>
    /\ \/ /\ runs' = [runs EXCEPT ![worker.run[1]].status = "completed"]
          /\ IF WithoutEmail(worker.people) = {}
             THEN Put(ReplySearch(worker, worker.people, "ok"))
             ELSE Put([worker EXCEPT !.pc = "fill"])
       \/ /\ UNCHANGED runs
          /\ Put(Throw(worker, 500, "updateRun"))

\* const cachedEnrichments = await db.select(...).where(inArray(apolloPersonId,
\* personIdsWithoutEmail), isNotNull(email), gt(createdAt, twelveMonthsAgo));
\* the statement may throw, as any awaited database statement may.
SearchFill ==
    /\ worker.route = "search" /\ worker.pc = "fill"
    /\ UNCHANGED <<cvars, nreq, enrichments, runs, now>>
    /\ \/ \E f \in FilledPages(worker.people) : Put(ReplySearch(worker, f, "ok"))
       \/ Put(Throw(worker, 500, "fill"))

---------------------------------------------------------------------------
(* All the routes together: the requests of /search/next run concurrently  *)
(* with each other and with the one request of the other routes.           *)

MaxRouted == 2          \* requests in a behaviour of SpecRoutes

\* A request of any route arrives.
Arrive ==
    /\ nreq < MaxRouted
    /\ \/ \E p \in Procs : NextStart(p)
       \/ SearchStart
       \/ EnrichStart
       \/ MatchStart
       \/ BulkStart

NextRoutes ==
    \/ Arrive
    \/ \E p \in Procs : Lookup(p)
    \/ \E p \in Procs : InsertCursor(p)
    \/ \E p \in Procs : ResetCursor(p)
    \/ \E p \in Procs : Search(p)
    \/ \E p \in Procs : Advance(p)
    \/ \E p \in Procs : CreateRun(p)
    \/ \E p \in Procs : AddCosts(p)
    \/ \E p \in Procs : UpdateRun(p)
    \/ SearchGetKey
    \/ SearchCreateRun
    \/ SearchCall
    \/ SearchStore
    \/ SearchAddCosts
    \/ SearchUpdateRun
    \/ SearchFill
    \/ EnrichCache
    \/ EnrichGetKey
    \/ EnrichCall
    \/ EnrichInsert
    \/ EnrichCreateRun
    \/ EnrichLink
    \/ EnrichAddCosts
    \/ EnrichUpdateRun
    \/ MatchCache
    \/ MatchHitRun
    \/ MatchHitDone
    \/ MatchGetKey
    \/ MatchCall
    \/ MatchCreateRun
    \/ MatchInsert
    \/ MatchAddCosts
    \/ MatchUpdateRun
    \/ BulkCreateRun
    \/ BulkCache
    \/ BulkGetKey
    \/ BulkCall
    \/ BulkAssemble
    \/ BulkAddCosts
    \/ BulkUpdateRun

SpecRoutes == Init /\ [][NextRoutes]_vars

---------------------------------------------------------------------------
(* POST /search/params: search filters generated by an LLM, tried against  *)
(* Apollo and generated again while they give no result.                   *)

MAX_ATTEMPTS == 10
MaxParamRequests == 1   \* /search/params requests in a behaviour

\* What the LLM may answer: filters in a ```json fence, filters of the wrong
\* type, or text that is not JSON.
LlmResponses ==
    { [fence |-> TRUE, json |-> TRUE, value |-> << <<"personTitles", "CEO">> >>,
       inputTokens |-> 500, outputTokens |-> 50],
      [fence |-> FALSE, json |-> TRUE,
       value |-> << <<"personTitles", "not-an-array">> >>,
       inputTokens |-> 500, outputTokens |-> 50],
      [fence |-> FALSE, json |-> FALSE, value |-> <<>>,
       inputTokens |-> 500, outputTokens |-> 50] }

\* The totals Apollo may report for the filters.
ParamTotals == {0, 42}

\* JSON.parse(content.trim().replace(/^```json?\s*/, "").replace(/\s*```$/, "")):
\* the fence is removed; text that is not JSON throws.
ParseContent(llmResponse) ==
    IF llmResponse.json THEN Some(llmResponse.value) ELSE None

\* validated.success: every filter has the type the schema gives it
FiltersValid(rawParams) ==
    \A i \in DOMAIN rawParams : rawParams[i][2] # "not-an-array"

\* SearchFiltersSchema.safeParse(rawParams)
SafeParseFilters(rawParams) ==
    IF FiltersValid(rawParams) THEN Some(ZodParse(rawParams)) ELSE None

\* The loop going on after filters that gave results.
NextAttemptWithoutBreak(w, entry, break) ==
    [w EXCEPT !.attemptHistory = Append(@, entry),
              !.attempt = @ + 1,
              !.pc = IF w.attempt + 1 > MAX_ATTEMPTS
                     THEN "updateRun" ELSE "callClaude"]

\* attemptHistory.push(...), then the head of the loop: attempt++, and the
\* loop is left when attempt > MAX_ATTEMPTS or on break.
NextAttempt(w, entry, break) ==
    [w EXCEPT !.attemptHistory = Append(@, entry),
              !.attempt = IF break THEN @ ELSE @ + 1,
              !.pc = IF break \/ w.attempt + 1 > MAX_ATTEMPTS
                     THEN "updateRun" ELSE "callClaude"]

\* catch (error) { await updateRun(paramRun.id, "failed").catch(() => {}); throw error }
Caught(w, at) == [w EXCEPT !.pc = "markFailed", !.error = at]

\* res.json({ searchParams, totalResults, attempts: attemptHistory.length, attemptHistory })
ReplyParams(w) ==
    [w EXCEPT !.pc = "done", !.last = "ok",
              !.res = [NoReply EXCEPT !.status = 200],
              !.body = Some([searchParams |-> w.finalParams,
                             totalResults |-> w.finalTotalResults,
                             attempts |-> Len(w.attemptHistory),
                             attemptHistory |-> w.attemptHistory])]

\* SearchParamsRequestSchema.safeParse: an invalid body is answered 400.
ParamsStart ==
    /\ ~Busy
    /\ nreq < MaxParamRequests
    /\ nreq' = nreq + 1
    /\ UNCHANGED <<cvars, enrichments, runs, now>>
    /\ \/ Put(Throw([IdleWorker EXCEPT !.route = "params", !.runId = nreq + 1],
                    400, "validate"))
       \/ \E o \in Orgs :
            Put([IdleWorker EXCEPT !.pc = "getKey", !.route = "params",
                                   !.orgId = o, !.runId = nreq + 1])

\* const apolloApiKey = await getByokKey / getAppKey(..., "apollo")
ParamsGetKey ==
    /\ worker.route = "params" /\ worker.pc = "getKey"
    /\ UNCHANGED <<cvars, nreq, enrichments, runs, now>>
    /\ \/ Put([worker EXCEPT !.pc = "getKey2"])
       \/ Put(Throw(worker, 500, "getKey"))

\* const anthropicApiKey = await getByokKey / getAppKey(..., "anthropic")
ParamsGetAnthropicKey ==
    /\ worker.route = "params" /\ worker.pc = "getKey2"
    /\ UNCHANGED <<cvars, nreq, enrichments, runs, now>>
    /\ \/ Put([worker EXCEPT !.pc = "createRun"])
       \/ Put(Throw(worker, 500, "getKey"))

\* const paramRun = await createRun({..., taskName: "search-params-generation"});
\* for (let attempt = 1; ...)
ParamsCreateRun ==
    /\ worker.route = "params" /\ worker.pc = "createRun"
    /\ UNCHANGED <<cvars, nreq, enrichments, now>>
    /\ \/ /\ runs' = Append(runs, NewRun(worker.runId, "search-params-generation"))
          /\ Put([worker EXCEPT !.run = Some(Len(runs) + 1), !.attempt = 1,
                                !.pc = "callClaude"])
       \/ /\ UNCHANGED runs
          /\ Put(Throw(worker, 500, "createRun"))

\* const llmResponse = await callClaude(anthropicApiKey, systemPrompt, userMessage)
ParamsCallClaude ==
    LET called == [worker EXCEPT !.llmCalls = @ + 1] IN
    /\ worker.route = "params" /\ worker.pc = "callClaude"
    /\ UNCHANGED <<cvars, nreq, enrichments, runs, now>>
    /\ \/ Put(Caught(called, "callClaude"))
       \/ \E r \in LlmResponses :
            Put([called EXCEPT !.llmResponse = Some(r), !.pc = "addTokenCosts"])

\* validated.data of the attempt under way
ValidatedParams(w) == SafeParseFilters(ParseContent(w.llmResponse[1])[1])[1]

\* The output tokens left out of the cost lines.
TokenCostLinesInputOnly(llmResponse) ==
    << [costName |-> "anthropic-sonnet-4.6-tokens-input",
        quantity |-> llmResponse.inputTokens] >>

TokenCostLines(llmResponse) ==
    << [costName |-> "anthropic-sonnet-4.6-tokens-input",
        quantity |-> llmResponse.inputTokens],
       [costName |-> "anthropic-sonnet-4.6-tokens-output",
        quantity |-> llmResponse.outputTokens] >>

\* await addCosts(paramRun.id, [tokens-input, tokens-output]); then the LLM
\* content is parsed and validated: continue on invalid JSON or filters.
ParamsAddTokenCosts ==
    LET r == worker.llmResponse[1]
        raw == ParseContent(r)
    IN  /\ worker.route = "params" /\ worker.pc = "addTokenCosts"
        /\ UNCHANGED <<cvars, nreq, enrichments, now>>
        /\ \/ /\ runs' = [runs EXCEPT ![worker.run[1]].costs = @ \o TokenCostLines(r)]
              /\ IF raw = None
                 THEN Put(NextAttempt(worker,
                             [searchParams |-> <<>>, totalResults |-> 0], FALSE))
                 ELSE IF ~FiltersValid(raw[1])
                 THEN Put(NextAttempt(worker,
                             [searchParams |-> raw[1], totalResults |-> 0], FALSE))
                 ELSE Put([worker EXCEPT !.pc = "search"])
           \/ /\ UNCHANGED runs
              /\ Put(Caught(worker, "addCosts"))

\* const result = await searchPeople(apolloApiKey, {..., page: 1, per_page: 1})
ParamsSearch ==
    LET called == [worker EXCEPT !.calls = @ + 1] IN
    /\ worker.route = "params" /\ worker.pc = "search"
    /\ UNCHANGED <<cvars, nreq, enrichments, runs, now>>
    /\ \/ Put(Caught(called, "search"))
       \/ \E t \in ParamTotals :
            Put([called EXCEPT !.totalResults = t, !.pc = "addSearchCost"])

\* await addCosts(paramRun.id, [{ costName: "apollo-search-credit", quantity: 1 }]);
\* attemptHistory.push(...); if (totalResults > 0) break
ParamsAddSearchCost ==
    LET searchParams == ValidatedParams(worker) IN
    /\ worker.route = "params" /\ worker.pc = "addSearchCost"
    /\ UNCHANGED <<cvars, nreq, enrichments, now>>
    /\ \/ /\ runs' = [runs EXCEPT ![worker.run[1]].costs =
                        @ \o <<[costName |-> "apollo-search-credit", quantity |-> 1]>>]
          /\ Put(NextAttempt([worker EXCEPT
                                !.finalParams = searchParams,
                                !.finalTotalResults = worker.totalResults],
                             [searchParams |-> searchParams,
                              totalResults |-> worker.totalResults],
                             worker.totalResults > 0))
       \/ /\ UNCHANGED runs
          /\ Put(Caught(worker, "addCosts"))

\* await updateRun(paramRun.id, "completed"), still inside the try; res.json(...)
ParamsUpdateRun ==
    /\ worker.route = "params" /\ worker.pc = "updateRun"
    /\ UNCHANGED <<cvars, nreq, enrichments, now>>
    /\ \/ /\ runs' = [runs EXCEPT ![worker.run[1]].status = "completed"]
          /\ Put(ReplyParams(worker))
       \/ /\ UNCHANGED runs
          /\ Put(Caught(worker, "updateRun"))

\* await updateRun(paramRun.id, "failed").catch(() => {}); throw error; the
\* outer catch answers 500 with the message of the error caught.
ParamsMarkFailed ==
    /\ worker.route = "params" /\ worker.pc = "markFailed"
    /\ UNCHANGED <<cvars, nreq, enrichments, now>>
    /\ \/ runs' = [runs EXCEPT ![worker.run[1]].status = "failed"]
       \/ UNCHANGED runs
    /\ Put(Throw(worker, 500, worker.error))

NextParams ==
    \/ ParamsStart
    \/ ParamsGetKey
    \/ ParamsGetAnthropicKey
    \/ ParamsCreateRun
    \/ ParamsCallClaude
    \/ ParamsAddTokenCosts
    \/ ParamsSearch
    \/ ParamsAddSearchCost
    \/ ParamsUpdateRun
    \/ ParamsMarkFailed

SpecParams == Init /\ [][NextParams]_vars

---------------------------------------------------------------------------
(* Properties of POST /search/next *)

H(p) == handler[p]
Answered(p) == H(p).pc = "done"
\* The request passed the schema check and the key retrieval, so it ran the
\* cursor lookup.
LookedUp(p) == H(p).pc \notin {"idle", "lookup"} /\ H(p).last \notin {"validate", "getKey"}
StructEq(a, b) == Struct(a) = Struct(b)
\* The request omitted searchParams or supplied filters with the same fields
\* and values as the cursor it found.
SameFilters(p) ==
    /\ H(p).existingCursor # None
    /\ \/ H(p).searchParams = None
       \/ StructEq(H(p).searchParams[1], H(p).existingCursor[1].searchParams)
DifferentFilters(p) ==
    /\ H(p).existingCursor # None
    /\ H(p).searchParams # None
    /\ ~StructEq(H(p).searchParams[1], H(p).existingCursor[1].searchParams)
\* The step is the reset write of some request.
ResetStep == \E p \in Procs : H(p).pc = "reset" /\ handler'[p].pc = "search"

\* C1: once the cursor is exhausted, every later sequential request that
\* omits filters or supplies filters equal to the stored ones answers
\* people=[] and done=true and makes no upstream search call.
C1_ExhaustionIdempotent ==
    \A p \in Procs :
        (Answered(p) /\ LookedUp(p) /\ H(p).solo /\ SameFilters(p)
            /\ H(p).existingCursor[1].exhausted)
        => (H(p).res.status = 200 /\ H(p).res.people = 0 /\ H(p).res.done
            /\ H(p).calls = 0)

\* C2: a request whose filters differ from the stored cursor's filters
\* resets the cursor (new filters, page 1, total 0, exhausted cleared) before
\* it fetches, and fetches page 1 with the new filters, whatever the stored
\* page and exhausted flag were.
C2_ResetOnDifferentFilters ==
    \A p \in Procs :
        (LookedUp(p) /\ DifferentFilters(p)) =>
            /\ H(p).last # "exhausted"
            /\ H(p).pc = "reset" => (H(p).calls = 0 /\ H(p).apolloParams = None)
            /\ (H(p).pc = "search" /\ H(p).solo) =>
                 \E r \in cursors :
                    /\ r.id = H(p).existingCursor[1].id
                    /\ StructEq(r.searchParams, H(p).searchParams[1])
                    /\ r.currentPage = 1
                    /\ r.totalEntries = 0
                    /\ r.exhausted = FALSE
            /\ H(p).pc \notin {"reset", "search"} =>
                 /\ H(p).calls = 1
                 /\ H(p).apolloParams[1].page = 1
                 /\ H(p).apolloParams[1].params = H(p).searchParams[1]

C2_Witness ==
    \E p \in Procs :
        /\ LookedUp(p) /\ DifferentFilters(p)
        /\ H(p).existingCursor[1].exhausted
        /\ H(p).existingCursor[1].currentPage > 1
        /\ H(p).pc = "advance"

\* C3: a sequential request with filters omitted or structurally identical
\* to the stored ones fetches the stored currentPage, not page 1.
C3_ResumeAtStoredPage ==
    \A p \in Procs :
        (LookedUp(p) /\ H(p).solo /\ SameFilters(p) /\ H(p).apolloParams # None)
        => H(p).apolloParams[1].page = H(p).existingCursor[1].currentPage

\* C4: a request without filters that finds no cursor is answered 400 and
\* has no effect: no upstream call, no run, no cost line, no audit row, no
\* cursor row.
C4_NoCursorNoFilters ==
    \A p \in Procs :
        (Answered(p) /\ LookedUp(p) /\ H(p).searchParams = None
            /\ H(p).existingCursor = None)
        => /\ H(p).res.status = 400
           /\ H(p).calls = 0
           /\ H(p).searchRun = None
           /\ H(p).search = None
           /\ H(p).cursorId = None
           /\ (H(p).solo /\ H(p).runId = nreq)
                 => SelectCursor(H(p).orgId, H(p).campaignId) = None

C4_Witness ==
    \E p \in Procs :
        /\ Answered(p) /\ LookedUp(p) /\ H(p).searchParams = None
        /\ H(p).existingCursor = None /\ H(p).res.status = 400

\* C5: at most one cursor row exists per (organizationId, campaignId), also
\* when first-time requests race, and no step deletes a cursor row.
C5_OneCursorPerCampaign ==
    /\ [](\A r1, r2 \in cursors :
            (r1.orgId = r2.orgId /\ r1.campaignId = r2.campaignId) => r1 = r2)
    /\ [][\A r \in cursors : \E r2 \in cursors' :
            r2.id = r.id /\ r2.orgId = r.orgId /\ r2.campaignId = r.campaignId]_vars

\* Two first-time requests raced: one created the row, the other was refused.
C5_Witness ==
    \E p \in Procs :
        /\ Answered(p) /\ H(p).last = "insert" /\ H(p).res.status = 500
        /\ Cardinality(cursors) = 1

\* C6: under any interleaving the stored currentPage never decreases except
\* by the reset write of a request.
C6_PageNeverDecreases ==
    [][\A r \in cursors : \A r2 \in cursors' :
          (r2.id = r.id /\ r2.currentPage < r.currentPage) => ResetStep]_vars

\* C7: exhausted, once true, stays true until the reset write of a request;
\* no other write, of a request in flight or not, sets it back to false.
C7_ExhaustedSticky ==
    [][\A r \in cursors : \A r2 \in cursors' :
          (r2.id = r.id /\ r.exhausted /\ ~r2.exhausted) => ResetStep]_vars

\* C8: every request that executed an upstream search and answered 200
\* posted exactly one apollo-search-credit line of quantity 1 on a run it
\* created under the caller's parent run, and completed that run, whatever
\* the number of people in the page.
C8_OneSearchCostPerFetch ==
    \A p \in Procs :
        (Answered(p) /\ H(p).res.status = 200 /\ H(p).calls > 0) =>
            /\ H(p).calls = 1
            /\ H(p).searchRun # None
            /\ H(p).searchRun[1].parentRunId = H(p).runId
            /\ H(p).searchRun[1].status = "completed"
            /\ Len(H(p).searchRun[1].costs) = 1
            /\ H(p).searchRun[1].costs[1].costName = "apollo-search-credit"
            /\ H(p).searchRun[1].costs[1].quantity = 1

C8_Witness ==
    \E p \in Procs :
        /\ Answered(p) /\ H(p).res.status = 200 /\ H(p).calls > 0
        /\ H(p).res.people = 0

\* C17: a /search/next request whose upstream search executed and whose run
\* could not be created, charged or completed ends with an error answer
\* that carries none of the fetched people.
C17_BillingFailureDeliversNothing ==
    \A p \in Procs :
        (Answered(p) /\ H(p).calls = 1 /\ H(p).last # "search"
            /\ (\/ H(p).searchRun = None
                \/ H(p).searchRun[1].costs = <<>>
                \/ H(p).searchRun[1].status # "completed"))
        => (H(p).res.status = 500 /\ H(p).res.people = 0)

\* A page of people was fetched and the cost posting failed.
C17_Witness ==
    \E p \in Procs :
        /\ Answered(p) /\ H(p).last = "addCosts" /\ H(p).people = PerPage
        /\ H(p).res.status = 500 /\ H(p).res.people = 0

\* The step is the advance write of request p.
AdvanceStep(p) == H(p).pc = "advance" /\ handler'[p].pc = "createRun"
\* The cursor row of request p, before and after the step.
RowOf(p) == CHOOSE r \in cursors : r.id = H(p).cursorId[1]
RowOfAfter(p) == CHOOSE r \in cursors' : r.id = H(p).cursorId[1]

\* C21 as stated: a sequential fetch that returns zero people answers
\* done=true, persists exhausted=true and leaves the stored totalEntries at
\* the value the last non-empty fetch recorded.
C21_EmptyFetchKeepsTotal ==
    [][\A p \in Procs :
          (AdvanceStep(p) /\ H(p).solo /\ H(p).people = 0
              /\ RowOf(p).totalEntries > 0) =>
          /\ H(p).done
          /\ RowOfAfter(p).exhausted
          /\ RowOfAfter(p).totalEntries = RowOf(p).totalEntries]_vars

\* C21 amended: a fetch that returns zero people answers done=true and
\* persists exhausted=true, and the stored totalEntries becomes the total
\* upstream reported with the empty page.
C21_EmptyFetchExhausts ==
    /\ [][\A p \in Procs :
            (AdvanceStep(p) /\ H(p).people = 0) =>
            /\ H(p).done
            /\ RowOfAfter(p).exhausted
            /\ RowOfAfter(p).totalEntries = H(p).totalEntries]_vars
    /\ [](\A p \in Procs :
            (Answered(p) /\ H(p).res.status = 200 /\ H(p).calls = 1
                /\ H(p).people = 0)
            => (H(p).res.done /\ H(p).res.people = 0
                /\ H(p).res.totalEntries = H(p).totalEntries))

\* Page 3 of 75 entries came back empty with the same total.
C21_Witness ==
    \E p \in Procs :
        /\ Answered(p) /\ H(p).res.status = 200 /\ H(p).res.done
        /\ H(p).currentPage = 3 /\ H(p).people = 0 /\ H(p).totalEntries = 75
        /\ H(p).existingCursor # None /\ H(p).existingCursor[1].totalEntries = 75
        /\ \E r \in cursors : r.id = H(p).cursorId[1] /\ r.exhausted
                               /\ r.totalEntries = 75

\* C22: a /search/next request never makes more than one upstream search
\* call; once answered it has made exactly one when it resolved a cursor
\* that was not exhausted, and none when the cursor was exhausted or the
\* request was rejected (invalid body, no key, no cursor and no filters,
\* cursor insert refused).
C22_AtMostOneUpstreamCall ==
    \A p \in Procs :
        /\ H(p).calls <= 1
        /\ Answered(p) =>
             IF LookedUp(p) /\ H(p).cursorId # None /\ ~H(p).isExhausted
             THEN H(p).calls = 1
             ELSE H(p).calls = 0

\* The one call failed and the request answered without a second call.
C22_Witness ==
    \E p \in Procs :
        /\ Answered(p) /\ H(p).last = "search" /\ H(p).res.status = 500
        /\ H(p).calls = 1

\* C23: the filter comparison is structural and independent of key order: a
\* request that supplies filters and finds a cursor takes the reset branch
\* exactly when its filters differ from the stored ones in some field or
\* value, whatever the key order of either.
C23_ComparisonIgnoresKeyOrder ==
    [][\A p \in Procs :
          (H(p).pc = "lookup" /\ handler'[p].pc # "lookup"
              /\ H(p).searchParams # None /\ handler'[p].existingCursor # None) =>
          ((handler'[p].pc = "reset") <=>
              ~StructEq(H(p).searchParams[1],
                        handler'[p].existingCursor[1].searchParams))]_vars

\* The request has applied its advance write.
Wrote(p) ==
    /\ H(p).calls = 1 /\ H(p).cursorId # None
    /\ H(p).pc \in {"createRun", "addCosts", "updateRun", "done"}
    /\ H(p).last # "search"

\* C24: the advance write is the last writer's: it stores the page the
\* writer read plus one, with the writer's total and doneness, whatever the
\* row holds by then; so when two overlapping requests fetched the same
\* page P, the write of the second of them leaves the cursor at P+1, with
\* the second writer's total and doneness.
C24_LastWriterWins ==
    /\ [][\A p \in Procs :
            AdvanceStep(p) =>
                RowOfAfter(p) = [RowOf(p) EXCEPT
                                   !.currentPage = H(p).currentPage + 1,
                                   !.totalEntries = H(p).totalEntries,
                                   !.exhausted = H(p).done]]_vars
    /\ [][\A p, q \in Procs :
            (p # q /\ Wrote(p) /\ AdvanceStep(q) /\ ~H(p).solo /\ ~H(q).solo
                /\ H(p).cursorId = H(q).cursorId
                /\ H(p).apolloParams[1].page = H(q).apolloParams[1].page) =>
              /\ RowOfAfter(q).currentPage = H(p).apolloParams[1].page + 1
              /\ RowOfAfter(q).totalEntries = H(q).totalEntries
              /\ RowOfAfter(q).exhausted = H(q).done]_vars

\* Two overlapping requests were both served page 2, and the cursor stands
\* at page 3.
C24_Witness ==
    \E p, q \in Procs :
        /\ p # q /\ Answered(p) /\ Answered(q)
        /\ ~H(p).solo /\ ~H(q).solo
        /\ H(p).res.status = 200 /\ H(q).res.status = 200
        /\ H(p).res.people = PerPage /\ H(q).res.people = PerPage
        /\ H(p).apolloParams[1].page = 2 /\ H(q).apolloParams[1].page = 2
        /\ H(p).apolloParams[1].params = H(q).apolloParams[1].params
        /\ H(p).cursorId = H(q).cursorId
        /\ RowOf(p).currentPage = 3

\* C28: the advance write of a request that fetched page p and got n people
\* and total t stores currentPage = p+1, totalEntries = t and exhausted =
\* done, where done = (n = 0) or (p+1 > ceil(t/25)) or (p+1 > 500), and the
\* 200 answer of the request reports that done and t; p+1 > ceil(t/25) is
\* stated as 25*p >= t.
C28_DonenessAndAdvance ==
    /\ [][\A p \in Procs :
            AdvanceStep(p) =>
              LET pg == H(p).apolloParams[1].page
                  done == \/ H(p).people = 0
                          \/ 25 * pg >= H(p).totalEntries
                          \/ pg + 1 > 500
              IN  /\ RowOfAfter(p).currentPage = pg + 1
                  /\ RowOfAfter(p).totalEntries = H(p).totalEntries
                  /\ RowOfAfter(p).exhausted = done
                  /\ H(p).done = done]_vars
    /\ [](\A p \in Procs :
            (Answered(p) /\ H(p).res.status = 200 /\ H(p).calls = 1) =>
              /\ H(p).res.done = (\/ H(p).people = 0
                                  \/ 25 * H(p).apolloParams[1].page >= H(p).totalEntries
                                  \/ H(p).apolloParams[1].page + 1 > 500)
              /\ H(p).res.totalEntries = H(p).totalEntries
              /\ H(p).res.people = H(p).people)

\* The cursor at page 2 of 75 entries received 25 people: not done, page 3.
C28_Witness ==
    \E p \in Procs :
        /\ Answered(p) /\ H(p).res.status = 200 /\ H(p).solo
        /\ H(p).existingCursor # None
        /\ H(p).existingCursor[1].currentPage = 2
        /\ H(p).existingCursor[1].totalEntries = 75
        /\ H(p).people = 25 /\ H(p).totalEntries = 75
        /\ ~H(p).res.done
        /\ RowOf(p).currentPage = 3 /\ ~RowOf(p).exhausted

\* C29: a request that resolves an exhausted cursor answers at once and
\* changes nothing: it writes no cursor row, creates no run, posts no cost
\* line, inserts no audit row and makes no upstream call; its answer is
\* people=[], done=true and the totalEntries of the cursor it read, which
\* for a sequential request is the row as it still stands.
C29_ExhaustedChangesNothing ==
    /\ [](\A p \in Procs :
            H(p).isExhausted =>
              /\ Answered(p) /\ H(p).last = "exhausted"
              /\ H(p).res.status = 200 /\ H(p).res.people = 0 /\ H(p).res.done
              /\ H(p).res.totalEntries = H(p).existingCursor[1].totalEntries
              /\ H(p).calls = 0
              /\ H(p).searchRun = None
              /\ H(p).search = None
              /\ (H(p).solo /\ H(p).runId = nreq) =>
                    RowOf(p) = H(p).existingCursor[1])
    /\ [][\A p \in Procs :
            (handler'[p].isExhausted /\ handler'[p].pc # H(p).pc) =>
              (H(p).pc = "lookup" /\ cursors' = cursors)]_vars

\* An exhausted cursor of 75 entries answered with totalEntries 75.
C29_Witness ==
    \E p \in Procs :
        /\ Answered(p) /\ H(p).last = "exhausted" /\ H(p).solo
        /\ H(p).existingCursor[1].totalEntries = 75
        /\ H(p).res.totalEntries = 75
        /\ RowOf(p) = H(p).existingCursor[1]

\* The request supplied filters and found no cursor.
First(p) == LookedUp(p) /\ H(p).searchParams # None /\ H(p).existingCursor = None

\* C30: a request that supplies filters and finds no cursor creates the
\* cursor of its campaign at page 1 with exhausted=false and its filters,
\* calls upstream with those filters, page 1 and page size 25, and its
\* advance write after a fetch that is not final leaves the cursor at page 2.
C30_FirstRequestCreatesCursor ==
    /\ [][\A p \in Procs :
            (H(p).pc = "insert" /\ handler'[p].pc = "search") =>
              /\ First(p)
              /\ SelectCursor(H(p).orgId, H(p).campaignId) = None
              /\ \E r \in cursors' \ cursors :
                    /\ cursors' = cursors \cup {r}
                    /\ r.id = handler'[p].cursorId[1]
                    /\ r.orgId = H(p).orgId /\ r.campaignId = H(p).campaignId
                    /\ r.currentPage = 1 /\ r.exhausted = FALSE
                    /\ r.totalEntries = 0
                    /\ StructEq(r.searchParams, H(p).searchParams[1])]_vars
    /\ [](\A p \in Procs :
            (First(p) /\ H(p).calls = 1) =>
              /\ H(p).apolloParams[1].page = 1
              /\ H(p).apolloParams[1].per_page = 25
              /\ H(p).apolloParams[1].params = H(p).searchParams[1])
    /\ [][\A p \in Procs :
            (First(p) /\ AdvanceStep(p) /\ ~H(p).done) =>
              (RowOfAfter(p).currentPage = 2 /\ ~RowOfAfter(p).exhausted)]_vars

\* The first request of a campaign got 25 of 75 people: the cursor is at page 2.
C30_Witness ==
    \E p \in Procs :
        /\ First(p) /\ Answered(p) /\ H(p).res.status = 200 /\ H(p).solo
        /\ H(p).res.people = 25 /\ ~H(p).res.done
        /\ RowOf(p).currentPage = 2 /\ ~RowOf(p).exhausted
        /\ StructEq(RowOf(p).searchParams, H(p).searchParams[1])

\* The request ended at a failure of createRun, addCosts or updateRun.
BillingFailed(p) ==
    Answered(p) /\ H(p).last \in {"createRun", "addCosts", "updateRun"}
\* The step is such a failure of request p.
BillingFailStep(p) ==
    /\ H(p).pc \in {"createRun", "addCosts", "updateRun"}
    /\ handler'[p].pc = "done" /\ handler'[p].last = H(p).pc

\* C31: every request whose upstream search executed successfully has
\* inserted its audit row by the time it ends, whether or not createRun,
\* addCosts or updateRun succeeded.
C31_AuditRowPerSearch ==
    \A p \in Procs :
        (Answered(p) /\ H(p).calls = 1 /\ H(p).last # "search") =>
            H(p).search # None

\* C32: the advance write precedes createRun and is not rolled back: a
\* failure of createRun, addCosts or updateRun answers an error without
\* people and leaves the cursor rows as they are, which for a sequential
\* request is page p+1 with exhausted = done; and the caller's retry, the
\* same request sent again next, fetches page p+1, or nothing when the
\* cursor was left exhausted.
C32_AdvanceNotRolledBack ==
    /\ [][\A p \in Procs :
            BillingFailStep(p) =>
              /\ cursors' = cursors
              /\ handler'[p].res.status = 500 /\ handler'[p].res.people = 0
              /\ H(p).solo =>
                    /\ RowOf(p).currentPage = H(p).apolloParams[1].page + 1
                    /\ RowOf(p).exhausted = H(p).done]_vars
    /\ [](\A p, q \in Procs :
            (p # q /\ BillingFailed(p) /\ H(p).solo
                /\ H(q).solo /\ H(q).runId = H(p).runId + 1 /\ LookedUp(q)
                /\ H(q).searchParams = H(p).searchParams) =>
              IF H(p).done
              THEN H(q).calls = 0 /\ H(q).last = "exhausted"
              ELSE H(q).apolloParams # None =>
                      H(q).apolloParams[1].page = H(p).apolloParams[1].page + 1)

\* The filters request p searched with.
SearchedWith(p) == H(p).apolloParams[1].params

\* C33 as stated: every advance write is applied to a cursor row that still
\* holds the filters the writer searched with, under any interleaving.
C33_AdvanceOnlyOnOwnFilters ==
    [][\A p \in Procs :
          AdvanceStep(p) => StructEq(RowOf(p).searchParams, SearchedWith(p))]_vars

\* C33 amended: the advance write reaches the row by its id and leaves the
\* filters of the row as they are, whatever they are by then; the row holds
\* the filters the writer searched with when the request is sequential.
C33_AdvanceKeyedById ==
    [][\A p \in Procs :
          AdvanceStep(p) =>
            /\ RowOfAfter(p).searchParams = RowOf(p).searchParams
            /\ RowOfAfter(p).currentPage = H(p).nextPage
            /\ cursors' \ {RowOfAfter(p)} = cursors \ {RowOf(p)}
            /\ H(p).solo => StructEq(RowOf(p).searchParams, SearchedWith(p))]_vars

\* A reset to new filters was overwritten: the row holds the filters of the
\* request that reset it and is about to fetch page 1, and the page that a
\* request in flight with the old filters wrote.
C33_Witness ==
    \E p, q \in Procs :
        /\ p # q /\ Wrote(p) /\ ~H(p).solo
        /\ H(q).pc = "search" /\ DifferentFilters(q)
        /\ H(q).cursorId = H(p).cursorId
        /\ StructEq(RowOf(p).searchParams, H(q).searchParams[1])
        /\ ~StructEq(RowOf(p).searchParams, SearchedWith(p))
        /\ RowOf(p).currentPage = H(p).nextPage
        /\ H(p).nextPage > 1 /\ H(q).currentPage = 1

\* C34: from a cursor at a page between 1 and 500, every cursor row that
\* any interleaving of requests reaches has currentPage >= 1 and is
\* exhausted when its currentPage is above 500, and no upstream search is
\* called with a page above 500.
C34_PageWithinCeiling ==
    /\ \A r \in cursors :
          /\ r.currentPage >= 1
          /\ r.currentPage > 500 => r.exhausted
    /\ \A p \in Procs :
          H(p).apolloParams # None =>
              (H(p).apolloParams[1].page >= 1 /\ H(p).apolloParams[1].page <= 500)

\* Page 500 of 20000 entries was fetched with a full page: the cursor stands
\* at page 501, exhausted, and the next request found it so and called
\* nothing.
C34_Witness ==
    \E p, q \in Procs :
        /\ p # q /\ Wrote(p) /\ H(p).apolloParams[1].page = 500
        /\ H(p).people = PerPage /\ H(p).totalEntries = 20000
        /\ RowOf(p).currentPage = 501 /\ RowOf(p).exhausted
        /\ Answered(q) /\ H(q).last = "exhausted" /\ H(q).calls = 0
        /\ H(q).existingCursor[1].currentPage = 501

---------------------------------------------------------------------------
(* Properties of POST /enrich and POST /match *)

\* The cost lines posted on the run of the current request.
Lines == IF worker.run = None THEN <<>> ELSE runs[worker.run[1]].costs
HasEmail == worker.person # None /\ worker.person[1].email # None
\* The upstream call of the request answered (it did not throw).
UpstreamAnswered == worker.calls = 1 /\ worker.last # "call"
OneLine(costName) ==
    /\ Len(Lines) = 1
    /\ Lines[1].costName = costName
    /\ Lines[1].quantity = 1
OneLineOf(costName, quantity) ==
    /\ Len(Lines) = 1
    /\ Lines[1].costName = costName
    /\ Lines[1].quantity = quantity

\* C9: a POST /enrich request that missed the cache posts an enrichment cost
\* line if and only if the person the upstream call resolved has a non-null
\* email: one line of quantity 1 with an email, no line for a null person or
\* a person without email.
C9_EnrichChargesIffEmail ==
    (worker.route = "enrich" /\ worker.pc = "done" /\ worker.res.status = 200
        /\ UpstreamAnswered)
    => IF HasEmail THEN OneLine("apollo-enrichment-credit") ELSE Lines = <<>>

\* C10: a POST /match request that missed the cache posts a match cost line
\* (apollo-person-match-credit, quantity 1) if and only if the person the
\* upstream call resolved has a non-null email; with no person or no email
\* no line is ever posted and the request, unless the child run could not be
\* created or completed, is answered 200 with cached=false.
C10_MatchChargesIffEmail ==
    worker.route = "match" =>
        /\ Lines # <<>> => (HasEmail /\ worker.cached = None
                              /\ OneLine("apollo-person-match-credit"))
        /\ (worker.pc = "done" /\ worker.res.status = 200 /\ UpstreamAnswered)
              => /\ ~worker.res.cached
                 /\ HasEmail <=> OneLine("apollo-person-match-credit")
        /\ (worker.pc = "done" /\ UpstreamAnswered /\ ~HasEmail)
              => \/ worker.res.status = 200 /\ ~worker.res.cached
                 \/ /\ worker.res.status = 500
                    /\ worker.last \in {"createRun", "updateRun"}

\* A match answered 200 for a person found without email: stored, not charged.
C10_Witness ==
    /\ worker.route = "match" /\ worker.pc = "done" /\ worker.res.status = 200
    /\ UpstreamAnswered
    /\ worker.person # None /\ worker.person[1].email = None
    /\ worker.enrichmentId # None
    /\ Lines = <<>>

\* The stored record r answers the key of the current request.
KeyMatch(r) ==
    IF worker.route = "enrich"
    THEN r.apolloPersonId = worker.apolloPersonId
    ELSE /\ Lower(r.firstName) = Lower(worker.firstName)
         /\ Lower(r.lastName) = Lower(worker.lastName)
         /\ Lower(r.organizationDomain) = Lower(worker.organizationDomain)
\* r has an email and is younger than 12 months.
Qualifies(r) ==
    KeyMatch(r) /\ r.email # None /\ now - r.createdAt < CacheMonths
Single == worker.route \in {"enrich", "match"}

\* C11: the cache lookup of /enrich (by person id) and of /match (by first
\* name, last name and domain) is a hit exactly when some stored record
\* matches the key, has an email and is younger than 12 months, and the hit
\* is such a record; on a miss the request goes on to the upstream call and
\* its 200 answer reports cached=false.
C11_CacheHitIffFreshEmail ==
    /\ [][(Single /\ worker.pc = "cache" /\ worker'.pc # "cache") =>
            /\ (worker'.cached # None) <=> (\E r \in Rows : Qualifies(r))
            /\ worker'.cached # None =>
                 (worker'.cached[1] \in Rows /\ Qualifies(worker'.cached[1]))
            /\ worker'.cached = None => worker'.pc = "getKey"]_vars
    /\ []((Single /\ worker.pc = "done" /\ worker.res.status = 200
             /\ worker.last # "validate" /\ worker.cached = None)
          => (worker.calls = 1 /\ ~worker.res.cached))

\* A miss although a record with an email matches the key: it is too old.
C11_Witness ==
    /\ Single /\ worker.pc = "getKey" /\ worker.cached = None
    /\ \E r \in Rows : KeyMatch(r) /\ r.email # None
                        /\ now - r.createdAt >= CacheMonths

\* C12: a request of /match or /enrich that hit the cache makes no upstream
\* call, posts no cost line, inserts no enrichment record and answers
\* enrichmentId=null with the cached person (cached=true for /match).
C12_CacheHitIsFree ==
    /\ []((Single /\ worker.cached # None) =>
            /\ worker.calls = 0
            /\ worker.enrichmentId = None
            /\ Lines = <<>>
            /\ worker.pc = "done" /\ worker.res.status = 200 =>
                 /\ worker.res.enrichmentId = None
                 /\ worker.res.person # None
                 /\ worker.route = "match" => worker.res.cached)
    /\ [][(Single /\ worker.cached # None /\ worker'.cached # None)
            => enrichments' = enrichments]_vars

C12_Witness ==
    /\ worker.route = "match" /\ worker.cached # None
    /\ worker.pc = "done" /\ worker.res.status = 200 /\ worker.res.cached

\* The record of the current request exists and points to its run.
Linked ==
    /\ worker.enrichmentId # None /\ worker.run # None
    /\ worker.enrichmentId[1] \in DOMAIN enrichments
    /\ enrichments[worker.enrichmentId[1]].enrichmentRunId = worker.run

\* C16: in /enrich and /match, when the cost line of a run is about to be
\* posted, has been posted, or could not be posted, the stored enrichment
\* record of the request exists and carries enrichmentRunId = that run's id.
C16_RecordLinkedBeforeCharge ==
    (Single /\ (\/ worker.pc = "addCosts"
                \/ Lines # <<>>
                \/ worker.pc = "done" /\ worker.last = "addCosts"))
    => Linked

\* The cost posting failed and the record still points to the run.
C16_Witness ==
    /\ worker.route = "enrich" /\ worker.pc = "done"
    /\ worker.last = "addCosts" /\ worker.res.status = 500
    /\ Lines = <<>> /\ Linked

\* C35: cache lookups are isolated per organization: what a request of
\* /enrich or /match is answered and charged does not depend on records of
\* another organization, so the record that serves a cache hit is one that
\* a request of the caller's own organization created.
C35_CachePerOrganization ==
    (Single /\ worker.cached # None) => worker.cached[1].orgId = worker.orgId

\* The record was written by /enrich: it is not linked, or linked to a run
\* of task "enrichment".
EnrichRecord(i) ==
    \/ enrichments[i].enrichmentRunId = None
    \/ runs[enrichments[i].enrichmentRunId[1]].taskName = "enrichment"
\* The /enrich request that wrote the record succeeded: its upstream call
\* returned the person of the record and its run was completed.
EnrichSucceeded(i) ==
    /\ enrichments[i].enrichmentRunId # None
    /\ LET run == runs[enrichments[i].enrichmentRunId[1]]
       IN  run.taskName = "enrichment" /\ run.status = "completed"
\* ... and a cost line was posted on its run.
EnrichCharged(i) ==
    EnrichSucceeded(i) /\ runs[enrichments[i].enrichmentRunId[1]].costs # <<>>
\* Record j follows record i for the same person within the freshness window.
WithinWindow(i, j) ==
    /\ i < j
    /\ enrichments[i].apolloPersonId = enrichments[j].apolloPersonId
    /\ enrichments[j].createdAt < enrichments[i].createdAt + CacheMonths

RecordCharged(r) ==
    r.enrichmentRunId # None /\ runs[r.enrichmentRunId[1]].costs # <<>>

\* C39 as stated: the record that serves a cache hit of /enrich or /match
\* belongs to a run on which the cost line was posted.
C39_CacheHitWasCharged ==
    (Single /\ worker.cached # None) => RecordCharged(worker.cached[1])

\* C39 amended: the records of /enrich and /match are not taken back when
\* billing fails: no step removes a record or changes its email or date, and
\* a failure of createRun, addCosts or updateRun leaves the records as they
\* are; so the record behind a cache hit carries an email and is either
\* charged (one line on its run) or left by a request that failed at
\* createRun (no link) or at addCosts (linked to a run without line, still
\* running).
C39_RecordsNotRolledBack ==
    /\ [][\A i \in DOMAIN enrichments :
            /\ i \in DOMAIN enrichments'
            /\ enrichments'[i].email = enrichments[i].email
            /\ enrichments'[i].createdAt = enrichments[i].createdAt]_vars
    /\ [][(Single /\ worker.pc \in {"createRun", "addCosts", "updateRun"}
             /\ worker'.pc = "done" /\ worker'.res.status = 500) =>
            enrichments' = enrichments]_vars
    /\ []((Single /\ worker.cached # None) =>
            LET r == worker.cached[1] IN
            /\ r.email # None
            /\ r.enrichmentRunId # None =>
                  LET run == runs[r.enrichmentRunId[1]] IN
                  /\ Len(run.costs) <= 1
                  /\ run.costs = <<>> => run.status = "running")

\* A request was served, free of charge, from a record whose cost posting
\* had failed: the record is linked to a run without cost line.
C39_Witness ==
    /\ Single /\ worker.pc = "done" /\ worker.res.status = 200
    /\ worker.cached # None /\ worker.calls = 0
    /\ worker.cached[1].enrichmentRunId # None
    /\ ~RecordCharged(worker.cached[1])
    /\ runs[worker.cached[1].enrichmentRunId[1]].status = "running"

---------------------------------------------------------------------------
(* Properties of POST /match/bulk *)

BulkDone == worker.route = "bulk" /\ worker.pc = "done" /\ worker.res.status = 200
Missed(i) == worker.cacheResults[i] = None
\* The position of item i among the items that missed the cache.
Rank(i) == Cardinality({j \in 1..i : Missed(j)})
\* The person p answers the item.
Answers(p, item) ==
    /\ Lower(p.first_name) = Lower(item.firstName)
    /\ Lower(p.last_name) = Lower(item.lastName)
    /\ Lower(p.domain) = Lower(item.organizationDomain)

\* C13: the results of a 200 answer of /match/bulk have the length of the
\* input; position i holds, for a cache hit, the cached record with
\* cached=true and no enrichmentId, and for a miss, with cached=false, what
\* upstream returned for that item (or null); a person at position i is the
\* person item i names.
C13_BulkResultsPositional ==
    BulkDone =>
        /\ Len(worker.res.results) = Len(worker.items)
        /\ \A i \in DOMAIN worker.items :
             LET r == worker.res.results[i] IN
             /\ r.person # None => Answers(r.person[1], worker.items[i])
             /\ IF ~Missed(i)
                THEN /\ r.cached /\ r.enrichmentId = None
                     /\ r.person =
                          Some(CachedPerson(worker.cacheResults[i][1].apolloPersonId,
                                            worker.cacheResults[i][1]))
                ELSE /\ ~r.cached
                     /\ r.person = worker.apolloResults[Rank(i)]
                     /\ (r.enrichmentId = None) <=> (r.person = None)

\* A hit before a miss with different people at the two positions.
C13_Witness ==
    /\ BulkDone /\ Len(worker.items) = 2
    /\ ~Missed(1) /\ Missed(2)
    /\ worker.res.results[2].person # None
    /\ worker.items[1] # worker.items[2]

\* C14: a /match/bulk request makes at most one upstream call, whose items
\* are exactly the items that missed the cache, in input order; it makes no
\* call when every item hit the cache.
C14_BulkSendsOnlyMisses ==
    (worker.route = "bulk" /\ worker.pc \notin {"createRun", "cache"}
        /\ worker.cacheResults # <<>>) =>
        /\ worker.calls <= 1
        /\ (\A i \in DOMAIN worker.items : ~Missed(i)) => worker.calls = 0
        /\ worker.calls = 1 =>
             /\ Len(worker.sent) = Cardinality({i \in DOMAIN worker.items : Missed(i)})
             /\ Len(worker.sent) > 0
             /\ \A i \in DOMAIN worker.items :
                    Missed(i) => worker.sent[Rank(i)] = worker.items[i]
        /\ (BulkDone /\ \E i \in DOMAIN worker.items : Missed(i)) => worker.calls = 1

\* One call for the only miss of a batch of two.
C14_Witness ==
    /\ BulkDone /\ Len(worker.items) = 2
    /\ ~Missed(1) /\ Missed(2) /\ worker.calls = 1 /\ Len(worker.sent) = 1

\* The runs created for the current request.
RunsOfRequest == {k \in DOMAIN runs : runs[k].parentRunId = worker.runId}
\* The items that missed the cache and got a person with an email.
Chargeable ==
    {k \in DOMAIN worker.apolloResults :
        worker.apolloResults[k] # None /\ worker.apolloResults[k][1].email # None}

\* C15: a /match/bulk request creates exactly one run for the batch and
\* posts at most one cost line on it; a 200 answer has that one line, of
\* quantity the number of missed items upstream matched with an email,
\* when that number is positive, and no line when it is zero.
C15_BulkOneRunOneLine ==
    (worker.route = "bulk" /\ worker.run # None) =>
        /\ RunsOfRequest = {worker.run[1]}
        /\ Len(Lines) <= 1
        /\ BulkDone =>
             IF Cardinality(Chargeable) = 0 THEN Lines = <<>>
             ELSE /\ OneLineOf("apollo-person-match-credit", Cardinality(Chargeable))
                  /\ runs[worker.run[1]].status = "completed"

\* Two people found upstream, only one of them with an email.
C15_Witness ==
    /\ BulkDone /\ Len(worker.apolloResults) = 2
    /\ Cardinality(Chargeable) = 1
    /\ \A k \in DOMAIN worker.apolloResults : worker.apolloResults[k] # None

---------------------------------------------------------------------------
(* Properties of all the routes *)

\* The positions at which a request awaits createRun, addCosts or updateRun.
BillingPcs == {"createRun", "hitRun", "addCosts", "updateRun", "hitDone"}
\* The call awaited at a position.
BillingCall(pc) ==
    CASE pc = "hitRun" -> "createRun"
      [] pc = "hitDone" -> "updateRun"
      [] OTHER -> pc

\* C18: in /search, /enrich, /search/next, /match and /match/bulk a call of
\* createRun, addCosts or updateRun that fails (it leaves the run as it was)
\* ends the request with a 500 answer reporting that call's failure; and no
\* 200 answer is given by a request whose run is not completed.
C18_BillingFailureIs500 ==
    /\ [][(worker.pc \in BillingPcs /\ worker'.pc # worker.pc /\ runs' = runs) =>
            /\ worker'.pc = "done"
            /\ worker'.res.status = 500
            /\ worker'.last = BillingCall(worker.pc)]_vars
    /\ [][\A p \in Procs :
            (H(p).pc \in BillingPcs /\ handler'[p].pc # H(p).pc
                /\ handler'[p].searchRun = H(p).searchRun) =>
            /\ handler'[p].pc = "done"
            /\ handler'[p].res.status = 500
            /\ handler'[p].last = H(p).pc]_vars
    /\ []((worker.pc = "done" /\ worker.res.status = 200 /\ worker.run # None)
            => runs[worker.run[1]].status = "completed")
    /\ [](\A p \in Procs :
            (Answered(p) /\ H(p).res.status = 200 /\ H(p).calls = 1)
            => (H(p).searchRun # None /\ H(p).searchRun[1].status = "completed"))

\* The cost posting of a batch failed: the batch is answered 500.
C18_Witness ==
    /\ worker.route = "bulk" /\ worker.pc = "done" /\ worker.last = "addCosts"
    /\ worker.res.status = 500 /\ worker.totalCreditsToCharge > 0

PostsOn(k) == k \in DOMAIN runs' /\ runs'[k].costs # runs[k].costs

\* C37: in /search, /search/next, /enrich, /match and /match/bulk a cost line
\* is posted only by a request whose upstream search, enrich or match call
\* has answered: the request that is at addCosts or has a line on its run
\* made one upstream call, which succeeded, and every step that posts a line
\* adds one line to the run of such a request; so there are no more search
\* cost lines than answered upstream searches.
C37_NoCostWithoutUpstreamCall ==
    /\ []((worker.pc = "addCosts" \/ Lines # <<>>) => UpstreamAnswered)
    /\ [](\A p \in Procs :
            (H(p).pc = "addCosts"
                \/ (H(p).searchRun # None /\ H(p).searchRun[1].costs # <<>>)) =>
              (H(p).calls = 1 /\ H(p).last # "search" /\ H(p).search # None))
    /\ [][\A k \in DOMAIN runs :
            PostsOn(k) =>
              /\ worker.pc = "addCosts" /\ worker.run = Some(k) /\ UpstreamAnswered
              /\ Len(runs'[k].costs) = Len(runs[k].costs) + 1]_vars
    /\ [][DOMAIN runs \subseteq DOMAIN runs'
            /\ \A k \in DOMAIN runs' \ DOMAIN runs : runs'[k].costs = <<>>]_vars

\* A batch of /match/bulk with one item served from the cache and one
\* matched upstream was charged one line after its upstream call.
C37_Witness ==
    /\ worker.route = "bulk" /\ worker.pc = "done" /\ worker.res.status = 200
    /\ worker.calls = 1 /\ Len(Lines) = 1
    /\ \E i \in DOMAIN worker.cacheResults : worker.cacheResults[i] # None

\* The runs of /search and /enrich.
ChargedTasks == {"people-search", "enrichment"}

\* C38: in /search, /search/next and /enrich updateRun(run, "completed") is
\* issued only after addCosts succeeded on that run: the request at
\* updateRun, and every completed run of these routes, has its one cost
\* line; a run is completed by the updateRun step of its own request, from
\* the status running, and is not written again.
C38_CompletedOnlyAfterCosts ==
    /\ []((worker.route \in {"search", "enrich"} /\ worker.pc = "updateRun") =>
            (Len(Lines) = 1 /\ runs[worker.run[1]].status = "running"))
    /\ [](\A k \in DOMAIN runs :
            (runs[k].taskName \in ChargedTasks /\ runs[k].status = "completed") =>
                Len(runs[k].costs) = 1)
    /\ [](\A p \in Procs :
            /\ H(p).pc = "updateRun" =>
                  /\ H(p).searchRun[1].costs = SearchCostLines(H(p))
                  /\ H(p).searchRun[1].status = "running"
            /\ (H(p).searchRun # None /\ H(p).searchRun[1].status = "completed") =>
                  /\ H(p).searchRun[1].costs = SearchCostLines(H(p))
                  /\ Answered(p) /\ H(p).last = "ok")
    /\ [][\A k \in DOMAIN runs :
            /\ runs[k].status = "completed" => runs'[k] = runs[k]
            /\ (runs[k].status # "completed" /\ runs'[k].status = "completed") =>
                  /\ worker.pc \in {"updateRun", "hitDone"}
                  /\ worker.run = Some(k) /\ worker'.pc # worker.pc]_vars

\* An /enrich request ended 200 with its run completed and its one line posted.
C38_Witness ==
    /\ worker.route = "enrich" /\ worker.pc = "done" /\ worker.res.status = 200
    /\ worker.run # None /\ runs[worker.run[1]].status = "completed"
    /\ Lines = EnrichCostLines(worker.person[1])

\* C19: a request that ends in an error after its run was created leaves
\* that run uncompleted: no terminal status is written in /search,
\* /search/next, /enrich, /match and /match/bulk.
C19_FailedRequestRunNotCompleted ==
    /\ (worker.pc = "done" /\ worker.res.status = 500 /\ worker.run # None)
          => runs[worker.run[1]].status = "running"
    /\ \A p \in Procs :
          (Answered(p) /\ H(p).res.status = 500 /\ H(p).searchRun # None)
          => H(p).searchRun[1].status = "running"

\* C20: a request whose upstream search, enrich or match call failed is
\* answered with an error reporting that failure and has no cost line; in
\* /search/next the failing step writes nothing to the cursor, and a request
\* that has answered never writes to it.
C20_UpstreamFailureCostsNothing ==
    /\ []((worker.pc = "done" /\ worker.last = "call") =>
            /\ worker.calls = 1
            /\ worker.res.status = 500
            /\ Lines = <<>>
            /\ worker.enrichmentId = None)
    /\ [](\A p \in Procs :
            (Answered(p) /\ H(p).last = "search") =>
            /\ H(p).res.status = 500 /\ H(p).res.people = 0
            /\ H(p).searchRun = None)
    /\ [][\A p \in Procs :
            (H(p).pc = "search" /\ handler'[p].pc = "done") => cursors' = cursors]_vars
    /\ [][cursors' # cursors =>
            \E q \in Procs : /\ H(q).pc \in {"insert", "reset", "advance"}
                             /\ handler'[q].pc # H(q).pc]_vars

\* The search for page 2 failed and the cursor still stands at page 2.
C20_Witness ==
    \E p \in Procs :
        /\ Answered(p) /\ H(p).last = "search" /\ H(p).res.status = 500
        /\ H(p).currentPage = 2
        /\ \E r \in cursors : r.id = H(p).cursorId[1] /\ r.currentPage = 2

---------------------------------------------------------------------------
(* Properties of POST /search/params *)

Params == worker.route = "params"
History == worker.attemptHistory
\* The attempts that ran an upstream search that answered.
Searched == {k \in DOMAIN History : History[k].searchParams # <<>>
                  /\ FiltersValid(History[k].searchParams)}
LinesOf(costName) == {k \in DOMAIN Lines : Lines[k].costName = costName}

\* The progress of a request: every step of the handler raises it.
Measure(w) ==
    CASE w.pc = "getKey" -> 1
      [] w.pc = "getKey2" -> 2
      [] w.pc = "createRun" -> 3
      [] w.pc = "callClaude" -> 4 * w.attempt
      [] w.pc = "addTokenCosts" -> 4 * w.attempt + 1
      [] w.pc = "search" -> 4 * w.attempt + 2
      [] w.pc = "addSearchCost" -> 4 * w.attempt + 3
      [] w.pc = "updateRun" -> 4 * MAX_ATTEMPTS + 4
      [] w.pc = "markFailed" -> 4 * MAX_ATTEMPTS + 5
      [] w.pc = "done" -> 4 * MAX_ATTEMPTS + 6
      [] OTHER -> 0

\* C26: a /search/params request makes at most 10 LLM calls and at most 10
\* upstream searches and always ends; it leaves the loop right after the
\* first attempt whose upstream total is positive (every step of the handler
\* raises a measure bounded by the 10 attempts); a 200 answer reports
\* attempts = the number of attempts executed, and after 10 attempts without
\* result the answer is 200 with totalResults = 0 and the run completed,
\* unless a call of the request threw.
C26_ParamsTerminates ==
    /\ [](Params =>
            /\ worker.llmCalls <= MAX_ATTEMPTS /\ worker.calls <= MAX_ATTEMPTS
            /\ worker.calls <= worker.llmCalls
            /\ Len(History) <= MAX_ATTEMPTS
            /\ \A k \in DOMAIN History :
                  History[k].totalResults > 0 =>
                     (k = Len(History) /\ worker.pc \in {"updateRun", "markFailed", "done"}
                         /\ worker.llmCalls = k)
            /\ (worker.pc = "done" /\ worker.res.status = 200) =>
                  /\ worker.body[1].attempts = worker.llmCalls
                  /\ worker.body[1].attempts = Len(worker.body[1].attemptHistory)
                  /\ worker.body[1].attempts \in 1..MAX_ATTEMPTS
                  /\ runs[worker.run[1]].status = "completed"
                  /\ worker.body[1].totalResults > 0 <=>
                        History[Len(History)].totalResults > 0
                  /\ worker.body[1].totalResults = 0 =>
                        worker.body[1].attempts = MAX_ATTEMPTS
            /\ (worker.pc = "done" /\ worker.llmCalls = MAX_ATTEMPTS
                    /\ worker.error = ""
                    /\ \A k \in DOMAIN History : History[k].totalResults = 0) =>
                  (worker.res.status = 200 /\ worker.body[1].totalResults = 0))
    /\ [][(Params /\ worker' # worker /\ nreq' = nreq) =>
            (worker'.route = "params" /\ Measure(worker') > Measure(worker)
                /\ Measure(worker') <= 4 * MAX_ATTEMPTS + 6)]_vars

\* Ten attempts without result, answered 200 with totalResults 0.
C26_Witness ==
    /\ Params /\ worker.pc = "done" /\ worker.res.status = 200
    /\ worker.body[1].attempts = MAX_ATTEMPTS /\ worker.body[1].totalResults = 0
    /\ worker.llmCalls = MAX_ATTEMPTS /\ worker.calls = MAX_ATTEMPTS
    /\ runs[worker.run[1]].status = "completed"

TokenPair ==
    << [costName |-> "anthropic-sonnet-4.6-tokens-input", quantity |-> 500],
       [costName |-> "anthropic-sonnet-4.6-tokens-output", quantity |-> 50] >>
SearchCredit == <<[costName |-> "apollo-search-credit", quantity |-> 1]>>
LinesAfter == runs'[worker.run[1]].costs
HistoryAfter == worker'.attemptHistory
At(pc) == worker.pc = pc /\ worker'.pc # pc

\* C27: in /search/params the step after each LLM call posts the two token
\* lines, once, and nothing is posted between the call and that step; an
\* attempt whose LLM output is not JSON or not valid filters then enters the
\* history with totalResults 0 without a search or a search credit; an
\* attempt that ran an upstream search posts one apollo-search-credit line,
\* in the step after the search, and enters the history with its total;
\* so the run holds two token lines per attempt and one search credit per
\* attempt that searched.
C27_ParamsCostLines ==
    /\ [][(Params /\ nreq' = nreq) =>
            /\ At("callClaude") => (LinesAfter = Lines /\ HistoryAfter = History)
            /\ (At("addTokenCosts") /\ worker'.pc # "markFailed") =>
                  /\ LinesAfter = Lines \o TokenPair
                  /\ IF worker'.pc = "search"
                     THEN HistoryAfter = History
                     ELSE /\ Len(HistoryAfter) = Len(History) + 1
                          /\ HistoryAfter[Len(HistoryAfter)].totalResults = 0
                          /\ \/ HistoryAfter[Len(HistoryAfter)].searchParams = <<>>
                             \/ ~FiltersValid(HistoryAfter[Len(HistoryAfter)].searchParams)
                          /\ worker'.calls = worker.calls
            /\ At("search") =>
                  (LinesAfter = Lines /\ HistoryAfter = History
                      /\ worker'.calls = worker.calls + 1)
            /\ (At("addSearchCost") /\ worker'.pc # "markFailed") =>
                  /\ LinesAfter = Lines \o SearchCredit
                  /\ Len(HistoryAfter) = Len(History) + 1
                  /\ HistoryAfter[Len(HistoryAfter)].totalResults = worker.totalResults
            /\ (worker.pc \in {"updateRun", "markFailed"} \/ worker'.pc = "markFailed") =>
                  (LinesAfter = Lines /\ HistoryAfter = History)]_vars
    /\ []((Params /\ worker.run # None) =>
            /\ \A k \in DOMAIN History :
                  k \notin Searched => History[k].totalResults = 0
            /\ Cardinality(LinesOf("apollo-search-credit")) <= worker.calls
            /\ (worker.pc \in {"callClaude", "updateRun"}
                    \/ (worker.pc = "done" /\ worker.res.status = 200)) =>
                  /\ Len(History) = worker.llmCalls
                  /\ Cardinality(Searched) = worker.calls
                  /\ Cardinality(LinesOf("apollo-search-credit")) = worker.calls
                  /\ Len(Lines) = 2 * worker.llmCalls + worker.calls)

\* An answer after an attempt that was not JSON, one that was not valid
\* filters, one that found nothing and one that found people.
C27_Witness ==
    /\ Params /\ worker.pc = "done" /\ worker.res.status = 200
    /\ Len(History) = 4
    /\ History[1].searchParams = <<>>
    /\ History[2].searchParams # <<>> /\ 2 \notin Searched
    /\ 3 \in Searched /\ History[3].totalResults = 0
    /\ History[4].totalResults > 0
    /\ Len(Lines) = 10

=============================================================================
